---- MODULE Spec2Model ----
(***************************************************************************)
(* Model of claudecode-rule2hook: the rule-to-hook conversion engine       *)
(* (src/rule2hook_mcp_server.py, src/rule2hook_mcp_server_v2.py) and the   *)
(* hooks validator.  Text is modelled as TLA+ strings, i.e. sequences of   *)
(* characters: Len, SubSeq, Head, Tail and \o act on them character by     *)
(* character, so substring tests and regular-expression scans are          *)
(* computed, not assumed.                                                  *)
(***************************************************************************)
EXTENDS Integers, Sequences, FiniteSets, TLC

(***************************************************************************)
(* Bounds of the model.                                                    *)
(***************************************************************************)
\* pieces of text joined into one rule (pure-function specification)
MaxPieces == 2
\* candidate segments joined into one rules text (convert_rules)
MaxSegments == 2

\* events in a hooks document
MaxEvents == 2

\* most lines in the project's CLAUDE.md
MaxLines == 3

\* most conditions of one @require
MaxConditions == 2

\* largest max_attempts of retry_on_error
MaxAttempts == 3

(***************************************************************************)
(* Python built-ins on str and list.                                       *)
(***************************************************************************)
Range(seq) == {seq[i] : i \in 1..Len(seq)}

Min(S) == CHOOSE m \in S : \A n \in S : m <= n

\* s[i] (1-based), a one-character string
CharAt(s, i) == SubSeq(s, i, i)

\* Python: k in s   (substring test)
Contains(s, k) == \E i \in 1..(Len(s) - Len(k) + 1) : SubSeq(s, i, i + Len(k) - 1) = k

\* Python: any(word in s for word in words)
AnyIn(words, s) == \E i \in 1..Len(words) : Contains(s, words[i])

UpperToLower ==
    [A |-> "a", B |-> "b", C |-> "c", D |-> "d", E |-> "e", F |-> "f", G |-> "g",
     H |-> "h", I |-> "i", J |-> "j", K |-> "k", L |-> "l", M |-> "m", N |-> "n",
     O |-> "o", P |-> "p", Q |-> "q", R |-> "r", S |-> "s", T |-> "t", U |-> "u",
     V |-> "v", W |-> "w", X |-> "x", Y |-> "y", Z |-> "z"]

LowerChar(c) == IF c \in DOMAIN UpperToLower THEN UpperToLower[c] ELSE c

RECURSIVE Lower(_)
\* Python: s.lower()
Lower(s) == IF Len(s) = 0 THEN "" ELSE LowerChar(Head(s)) \o Lower(Tail(s))

\* characters str.strip() removes and the regular expression \s matches
Whitespace == {" ", "\t", "\n", "\r"}

IsSpace(c) == c \in Whitespace

LowerLetters == Range(<<"a","b","c","d","e","f","g","h","i","j","k","l","m",
                        "n","o","p","q","r","s","t","u","v","w","x","y","z">>)

Digits == {"0","1","2","3","4","5","6","7","8","9"}

\* the regular expression class \w
IsWordChar(c) == LowerChar(c) \in LowerLetters \/ c \in Digits \/ c = "_"

\* Python: s.strip()
Strip(s) ==
    LET keep == {i \in 1..Len(s) : ~IsSpace(CharAt(s, i))}
    IN  IF keep = {} THEN ""
        ELSE SubSeq(s, Min(keep), CHOOSE m \in keep : \A n \in keep : n <= m)

\* Python: "|".join(items)
RECURSIVE Join(_, _)
Join(sep, items) ==
    IF Len(items) = 0 THEN ""
    ELSE IF Len(items) = 1 THEN items[1]
    ELSE items[1] \o sep \o Join(sep, Tail(items))

\* Python: re.split(r'[,;]', s): the pieces between separators, empty ones kept
RECURSIVE ReSplit(_, _)
ReSplit(s, seps) ==
    LET cuts == {i \in 1..Len(s) : CharAt(s, i) \in seps}
    IN  IF cuts = {} THEN <<s>>
        ELSE <<SubSeq(s, 1, Min(cuts) - 1)>> \o
             ReSplit(SubSeq(s, Min(cuts) + 1, Len(s)), seps)

\* Optional[str]
None == [isNone |-> TRUE]

Some(s) == [isNone |-> FALSE, value |-> s]

\* Python truthiness of an Optional[str]: None and "" are falsy
Truthy(opt) == ~opt.isNone /\ opt.value # ""

(***************************************************************************)
(* Keyword tables (process-wide constants).                                *)
(***************************************************************************)
\* The grave accent (U+0060) cannot be written inside a TLA+ string
\* literal; the model writes it as "~", a character that like the grave
\* accent is neither whitespace, nor a word character, nor used by any
\* keyword, separator or generated command.
Backtick == "~"

Quote == "\""

\* a keyword table declared with PostToolUse ahead of PreToolUse
HOOK_EVENTS_PostFirst ==
    << [event |-> "PostToolUse",
        keywords |-> <<"after", "following", "once done", "when finished">>],
       [event |-> "PreToolUse",
        keywords |-> <<"before", "check", "validate", "prevent", "scan", "verify">>],
       [event |-> "Stop",
        keywords |-> <<"finish", "complete", "end task", "done", "wrap up">>],
       [event |-> "Notification",
        keywords |-> <<"notify", "alert", "inform", "message">>] >>

\* HOOK_EVENTS, in dict insertion order
HOOK_EVENTS ==
    << [event |-> "PreToolUse",
        keywords |-> <<"before", "check", "validate", "prevent", "scan", "verify">>],
       [event |-> "PostToolUse",
        keywords |-> <<"after", "following", "once done", "when finished">>],
       [event |-> "Stop",
        keywords |-> <<"finish", "complete", "end task", "done", "wrap up">>],
       [event |-> "Notification",
        keywords |-> <<"notify", "alert", "inform", "message">>] >>

\* the secondary heuristic of _determine_event
EditWords == <<"edit", "modify", "save", "write">>

\* keyword lists of _determine_tools, in the order of its if-statements
FileWords == <<"edit", "modify", "save", "file", "code">>

CommandWords == <<"command", "bash", "shell", "execute", "run">>

SearchWords == <<"search", "find", "grep">>

WebWords == <<"web", "fetch", "download">>

(***************************************************************************)
(* Event Classifier: _determine_event.                                     *)
(***************************************************************************)
_determine_event(rule) ==
    LET rule_lower == Lower(rule)
        hits == {i \in 1..Len(HOOK_EVENTS) : AnyIn(HOOK_EVENTS[i].keywords, rule_lower)}
    IN  IF hits # {} THEN HOOK_EVENTS[Min(hits)].event
        ELSE IF AnyIn(EditWords, rule_lower) THEN "PostToolUse"
        ELSE "Stop"

(***************************************************************************)
(* Tool Matcher: _determine_tools.                                         *)
(***************************************************************************)
\* the closing loop of _determine_tools: drop repeats, keep first occurrences
RECURSIVE UniqueTools(_, _)
UniqueTools(tools, seen) ==
    IF Len(tools) = 0 THEN <<>>
    ELSE IF Head(tools) \in seen THEN UniqueTools(Tail(tools), seen)
    ELSE <<Head(tools)>> \o UniqueTools(Tail(tools), seen \cup {Head(tools)})

\* a tool matcher that tests the command group ahead of the file group
_determine_tools_CommandFirst(rule) ==
    LET rule_lower == Lower(rule)
        t1 == IF AnyIn(CommandWords, rule_lower) THEN <<"Bash">> ELSE <<>>
        t2 == IF AnyIn(FileWords, rule_lower) THEN t1 \o <<"Edit", "MultiEdit", "Write">> ELSE t1
        t3 == IF AnyIn(SearchWords, rule_lower) THEN t2 \o <<"Grep", "Glob">> ELSE t2
        t4 == IF Contains(rule_lower, "read") THEN t3 \o <<"Read">> ELSE t3
        t5 == IF AnyIn(WebWords, rule_lower) THEN t4 \o <<"WebFetch", "WebSearch">> ELSE t4
        t6 == IF Contains(rule_lower, "todo") THEN t5 \o <<"TodoRead", "TodoWrite">> ELSE t5
    IN  UniqueTools(t6, {})

_determine_tools(rule) ==
    LET rule_lower == Lower(rule)
        t1 == IF AnyIn(FileWords, rule_lower) THEN <<"Edit", "MultiEdit", "Write">> ELSE <<>>
        \* the inner test compares "bash" with the capitalised names and never fails
        t2 == IF AnyIn(CommandWords, rule_lower) /\ "bash" \notin Range(t1)
              THEN t1 \o <<"Bash">> ELSE t1
        t3 == IF AnyIn(SearchWords, rule_lower) THEN t2 \o <<"Grep", "Glob">> ELSE t2
        t4 == IF Contains(rule_lower, "read") THEN t3 \o <<"Read">> ELSE t3
        t5 == IF AnyIn(WebWords, rule_lower) THEN t4 \o <<"WebFetch", "WebSearch">> ELSE t4
        t6 == IF Contains(rule_lower, "todo") THEN t5 \o <<"TodoRead", "TodoWrite">> ELSE t5
    IN  UniqueTools(t6, {})

(***************************************************************************)
(* Command Extractor: _extract_command.                                    *)
(***************************************************************************)
\* re.search(d ([^d]+) d, s).group(1) for a one-character delimiter d: the
\* leftmost d that is followed by at least one non-d character and then a d
DelimitedMatch(s, d) ==
    LET at == {i \in 1..Len(s) : CharAt(s, i) = d}
        opens == {i \in at : i + 1 \notin at /\ \E j \in at : j > i}
    IN  IF opens = {} THEN None
        ELSE LET i == Min(opens)
                 j == Min({k \in at : k > i})
             IN  Some(SubSeq(s, i + 1, j - 1))

VerbList == <<"run", "execute", "check", "validate", "format", "scan">>

\* re.search(r'\b(run|execute|check|validate|format|scan)\s+(\S+)', s).group(2)
VerbMatch(s) ==
    LET n == Len(s)
        \* the verb VerbList[v] stands at i, after a word boundary
        VerbAt(i, v) ==
            /\ i + Len(VerbList[v]) - 1 <= n
            /\ SubSeq(s, i, i + Len(VerbList[v]) - 1) = VerbList[v]
            /\ (i = 1 \/ ~IsWordChar(CharAt(s, i - 1)))
        \* first non-blank position after the blanks that follow a verb ending at e
        TokenStart(e) ==
            LET nb == {k \in (e + 1)..n : ~IsSpace(CharAt(s, k))}
            IN  IF e + 1 <= n /\ IsSpace(CharAt(s, e + 1)) /\ nb # {} THEN Min(nb) ELSE 0
        starts == {i \in 1..n : \E v \in 1..Len(VerbList) :
                      VerbAt(i, v) /\ TokenStart(i + Len(VerbList[v]) - 1) # 0}
    IN  IF starts = {} THEN None
        ELSE LET i == Min(starts)
                 v == Min({w \in 1..Len(VerbList) :
                              VerbAt(i, w) /\ TokenStart(i + Len(VerbList[w]) - 1) # 0})
                 b == TokenStart(i + Len(VerbList[v]) - 1)
                 blanks == {k \in b..n : IsSpace(CharAt(s, k))}
                 e == IF blanks = {} THEN n ELSE Min(blanks) - 1
             IN  Some(SubSeq(s, b, e))

\* a command extractor that consults the phrase table ahead of the delimited
\* substrings
_extract_command_PhraseFirst(rule) ==
    LET rule_lower == Lower(rule)
        backtick_match == DelimitedMatch(rule, Backtick)
        quote_match == DelimitedMatch(rule, Quote)
        verb_match == VerbMatch(rule_lower)
    IN  IF Contains(rule_lower, "black") /\ Contains(rule_lower, "python")
             THEN Some("black . --quiet 2>/dev/null || true")
        ELSE IF Contains(rule_lower, "prettier")
             THEN Some("prettier --write . 2>/dev/null || true")
        ELSE IF Contains(rule_lower, "git status")
             THEN Some("git status")
        ELSE IF Contains(rule_lower, "npm test")
             THEN Some("npm test 2>/dev/null || echo 'Tests need attention'")
        ELSE IF Contains(rule_lower, "npm run lint")
             THEN Some("npm run lint 2>/dev/null || true")
        ELSE IF Contains(rule_lower, "todo") /\ Contains(rule_lower, "comment")
             THEN Some("grep -r 'TODO' . 2>/dev/null || echo 'No TODOs found'")
        ELSE IF Contains(rule_lower, "secret") \/ Contains(rule_lower, "credential")
             THEN Some("git secrets --scan 2>/dev/null || echo 'No secrets found'")
        ELSE IF ~backtick_match.isNone THEN Some(backtick_match.value)
        ELSE IF ~quote_match.isNone /\ \E c \in {" ", "/", "-"} : Contains(quote_match.value, c)
             THEN Some(quote_match.value)
        ELSE IF ~verb_match.isNone
             THEN Some(verb_match.value \o " 2>/dev/null || true")
        ELSE None

_extract_command(rule) ==
    LET rule_lower == Lower(rule)
        backtick_match == DelimitedMatch(rule, Backtick)
        quote_match == DelimitedMatch(rule, Quote)
        verb_match == VerbMatch(rule_lower)
    IN  IF ~backtick_match.isNone THEN Some(backtick_match.value)
        ELSE IF ~quote_match.isNone /\ \E c \in {" ", "/", "-"} : Contains(quote_match.value, c)
             THEN Some(quote_match.value)
        ELSE IF Contains(rule_lower, "black") /\ Contains(rule_lower, "python")
             THEN Some("black . --quiet 2>/dev/null || true")
        ELSE IF Contains(rule_lower, "prettier")
             THEN Some("prettier --write . 2>/dev/null || true")
        ELSE IF Contains(rule_lower, "git status")
             THEN Some("git status")
        ELSE IF Contains(rule_lower, "npm test")
             THEN Some("npm test 2>/dev/null || echo 'Tests need attention'")
        ELSE IF Contains(rule_lower, "npm run lint")
             THEN Some("npm run lint 2>/dev/null || true")
        ELSE IF Contains(rule_lower, "todo") /\ Contains(rule_lower, "comment")
             THEN Some("grep -r 'TODO' . 2>/dev/null || echo 'No TODOs found'")
        ELSE IF Contains(rule_lower, "secret") \/ Contains(rule_lower, "credential")
             THEN Some("git secrets --scan 2>/dev/null || echo 'No secrets found'")
        ELSE IF ~verb_match.isNone
             THEN Some(verb_match.value \o " 2>/dev/null || true")
        ELSE None

(***************************************************************************)
(* State.                                                                  *)
(*   p_*  one rule run through the three analysers, in the order in which  *)
(*        convert_rules calls them                                         *)
(*   per call c of convert_rules (two calls can be in flight):             *)
(*     server[c]   which module serves the call: "v1" is                   *)
(*                 rule2hook_mcp_server.py, "v2" rule2hook_mcp_server_v2.py *)
(*     rules[c], merge_with_existing[c]   the arguments                    *)
(*     pc[c]       "idle", "ready", then the await the call is suspended   *)
(*                 at: "info" (ctx.info "Analyzing rule"), "warning"       *)
(*                 (ctx.warning), "converted" (ctx.info "Converted"), and  *)
(*                 "done"                                                  *)
(*     rule_list[c], idx[c]   the candidate rules and the loop position    *)
(*     hooks_config[c], converted_rules[c], failed_rules[c]   the locals   *)
(*     outcome[c]  what the call returned or raised                        *)
(*   v_*  one call of validate_hooks: the file it is given, the await it   *)
(*        is suspended at ("parsed", "event", "progress"), the parsed      *)
(*        config, the position of the loop over the events, the locals     *)
(*        (issues, warnings, hook_count, hooks_summary) and the result     *)
(*   d_*  one call of detect_conflicts: the existing file, the new hooks    *)
(*        JSON, the index existing_matchers, the position of the two loops *)
(*        over the new document, the conflicts found and the result        *)
(*   c_*  one run of the command-line validator on one file: its position, *)
(*        what validate_hooks_file returned and the exit code              *)
(*   e_*  one exception object: the constructor arguments, the object and  *)
(*        its string form                                                  *)
(*   l_*  one list_project_rules call                                      *)
(*   q_*  one call of a function decorated with @require                   *)
(*   t_*  one call of a function wrapped by retry_on_error                 *)
(***************************************************************************)
VARIABLES p_rule, p_pc, p_event, p_tools, p_command,
          server, rules, merge_with_existing, pc, rule_list, idx,
          hooks_config, converted_rules, failed_rules, outcome,
          v_file, v_pc, v_config, v_event, v_st, v_result,
          d_existing, d_new, d_pc, d_matchers, d_event, d_group, d_conflicts, d_result,
          c_file, c_pc, c_valid, c_exit,
          e_args, e_pc, e_exc, e_str,
          l_project, l_pc, l_idx, l_all_rules, l_files_found, l_result,
          q_args, q_conditions, q_pc, q_i, q_bound, q_outcome,
          t_max_attempts, t_delay, t_func, t_pc, t_attempt, t_calls, t_sleeps,
          t_last_exception, t_outcome

pureVars == <<p_rule, p_pc, p_event, p_tools, p_command>>

convertVars == <<server, rules, merge_with_existing, pc, rule_list, idx,
                 hooks_config, converted_rules, failed_rules, outcome>>

validateVars == <<v_file, v_pc, v_config, v_event, v_st, v_result>>

detectVars == <<d_existing, d_new, d_pc, d_matchers, d_event, d_group, d_conflicts, d_result>>

cliVars == <<c_file, c_pc, c_valid, c_exit>>

excVars == <<e_args, e_pc, e_exc, e_str>>

listVars == <<l_project, l_pc, l_idx, l_all_rules, l_files_found, l_result>>

requireVars == <<q_args, q_conditions, q_pc, q_i, q_bound, q_outcome>>

retryVars == <<t_max_attempts, t_delay, t_func, t_pc, t_attempt, t_calls, t_sleeps,
               t_last_exception, t_outcome>>

vars == <<pureVars, convertVars, validateVars, detectVars, cliVars, excVars,
          listVars, requireVars, retryVars>>

(***************************************************************************)
(* Rule Converter: convert_rules (v1 and v2).                              *)
(* The helper functions _determine_event, _determine_tools and             *)
(* _extract_command that v2 calls are those of v1.                         *)
(***************************************************************************)
Calls == {1, 2}

MAX_RULE_LENGTH == 500

MAX_COMMAND_LENGTH == 1000

\* the text of the exception a failed notification raises
ObserverError == "observer unavailable"

Digit == <<"0", "1", "2", "3", "4", "5", "6", "7", "8", "9">>

\* Python: str(n) for n >= 0
RECURSIVE Str(_)
Str(n) == IF n < 10 THEN Digit[n + 1] ELSE Str(n \div 10) \o Digit[(n % 10) + 1]

\* Python: an empty dict
EmptyDict == [k \in {} |-> <<>>]

Returned(value) == [kind |-> "return", value |-> value]

Raised(error, message) == [kind |-> "raise", error |-> error, message |-> message]

NoOutcome == [kind |-> "none"]

\* @require(string_not_empty('rules'), len(rules) < MAX_RULE_LENGTH * 10) of v2
Precondition(text) == Strip(text) # "" /\ Len(text) < MAX_RULE_LENGTH * 10

\* a split that keeps the blank pieces
Candidates_KeepBlank(text) ==
    LET pieces == ReSplit(text, {",", ";"})
    IN  [i \in 1..Len(pieces) |-> Strip(pieces[i])]

\* [r.strip() for r in re.split(r'[,;]', rules) if r.strip()]
\* (v2 strips the whole text first, which leaves the stripped pieces as they are)
Candidates(text) ==
    LET pieces == ReSplit(text, {",", ";"})
        stripped == [i \in 1..Len(pieces) |-> Strip(pieces[i])]
    IN  SelectSeq(stripped, LAMBDA r : r # "")

\* a hook group that gets its matcher whenever some tool matched
HookGroup_IgnoresStop(event, tools, hook_entry) ==
    IF tools # <<>>
    THEN [matcher |-> Join("|", tools), hooks |-> <<hook_entry>>]
    ELSE [hooks |-> <<hook_entry>>]

\* the hook group of a converted rule: a matcher only when the event is not
\* Stop and some tool matched
HookGroup(event, tools, hook_entry) ==
    IF event # "Stop" /\ tools # <<>>
    THEN [matcher |-> Join("|", tools), hooks |-> <<hook_entry>>]
    ELSE [hooks |-> <<hook_entry>>]

\* a configuration whose newest group goes to the front of its event
AppendGroup_Prepend(config, event, hook_group) ==
    LET hooks == IF event \in DOMAIN config.hooks
                 THEN config.hooks
                 ELSE config.hooks @@ (event :> <<>>)
    IN  [hooks |-> [hooks EXCEPT ![event] = <<hook_group>> \o @]]

\* hooks_config["hooks"][event].append(hook_group), the key created on first use
AppendGroup(config, event, hook_group) ==
    LET hooks == IF event \in DOMAIN config.hooks
                 THEN config.hooks
                 ELSE config.hooks @@ (event :> <<>>)
    IN  [hooks |-> [hooks EXCEPT ![event] = Append(@, hook_group)]]

\* converted_rules.append({...})
AppendConverted(converted, rule, event, tools, command) ==
    Append(converted, [rule |-> rule, event |-> event, tools |-> tools, command |-> command])

\* str(RuleParsingError(rule, "Could not determine command from rule"))
RuleParsingErrorText(rule) ==
    "Failed to parse rule '" \o rule \o "': Could not determine command from rule"

\* the return statement of v1
ResultV1(config, converted) ==
    Returned([status |-> "success",
              message |-> "Successfully converted " \o Str(Len(converted)) \o " rules",
              hooks_config |-> config,
              converted_rules |-> converted])

\* the status computation and the return statement of v2, then its @ensure
ResultV2(config, converted, failed) ==
    LET status == IF converted = <<>> THEN "error"
                  ELSE IF failed # <<>> THEN "partial"
                  ELSE "success"
        message ==
            IF converted = <<>>
            THEN "Failed to convert any rules. " \o Str(Len(failed)) \o " rules had errors."
            ELSE IF failed # <<>>
            THEN "Converted " \o Str(Len(converted)) \o " rules, " \o Str(Len(failed)) \o " failed."
            ELSE "Successfully converted " \o Str(Len(converted)) \o " rules"
        result == [status |-> status, message |-> message, hooks_config |-> config,
                   converted_rules |-> converted, failed_rules |-> failed]
    IN  IF /\ "status" \in DOMAIN result
           /\ "hooks_config" \in DOMAIN result
           /\ result.status \in {"success", "partial", "error"}
        THEN Returned(result)
        ELSE Raised("ValidationError", "Postcondition failed in convert_rules")

\* the call before its first await: the contracts, the split, the locals.
\* Gives the fields of the call that change.
Begin(srv, text) ==
    LET list == Candidates(text)
        fresh == [rule_list |-> list, idx |-> 1, hooks_config |-> [hooks |-> EmptyDict],
                  converted_rules |-> <<>>, failed_rules |-> <<>>]
        stop(o) == [fresh EXCEPT !.rule_list = <<>>] @@ [pc |-> "done", outcome |-> o]
    IN  IF srv = "v2" /\ ~Precondition(text)
        THEN stop(Raised("ValidationError", "Precondition failed in convert_rules"))
        ELSE IF srv = "v2" /\ \E i \in 1..Len(list) : Len(list[i]) > MAX_RULE_LENGTH
        THEN stop(Raised("ValidationError", "Parameter exceeds maximum length"))
        ELSE IF list = <<>>
        THEN IF srv = "v1"
             THEN stop(Returned([status |-> "error", message |-> "No rules provided"]))
             ELSE stop(Raised("ValidationError", "No valid rules found after parsing"))
        ELSE fresh @@ [pc |-> "info", outcome |-> NoOutcome]

\* a loop body in which a rule without a command discards what was converted
\* before it
Analyze_FailureDiscards(srv, rule, config, converted, failed) ==
    LET event == _determine_event(rule)
        tools == _determine_tools(rule)
        command == _extract_command(rule)
    IN  IF ~Truthy(command)
        THEN [hooks_config |-> [hooks |-> EmptyDict], converted_rules |-> <<>>,
              failed_rules |-> IF srv = "v2"
                               THEN Append(failed, [rule |-> rule,
                                                    error |-> RuleParsingErrorText(rule)])
                               ELSE failed,
              pc |-> "warning"]
        ELSE [hooks_config |->
                  AppendGroup(config, event,
                      HookGroup(event, tools, [type |-> "command", command |-> command.value])),
              converted_rules |-> AppendConverted(converted, rule, event, tools, command.value),
              failed_rules |-> failed,
              pc |-> "converted"]

\* the loop body between the first ctx.info and the next await: the rule is
\* analysed and either fails (next await: ctx.warning) or is converted (next
\* await: the second ctx.info).  Gives the locals and the await reached.
Analyze(srv, rule, config, converted, failed) ==
    LET event == _determine_event(rule)
        tools == _determine_tools(rule)
        command == _extract_command(rule)
    IN  IF ~Truthy(command)
        THEN [hooks_config |-> config, converted_rules |-> converted,
              failed_rules |-> IF srv = "v2"
                               THEN Append(failed, [rule |-> rule,
                                                    error |-> RuleParsingErrorText(rule)])
                               ELSE failed,
              pc |-> "warning"]
        ELSE IF srv = "v2" /\ Len(command.value) > MAX_COMMAND_LENGTH
        THEN [hooks_config |-> config, converted_rules |-> converted,
              failed_rules |-> Append(failed,
                  [rule |-> rule,
                   error |-> "Unexpected error: Parameter 'command' exceeds maximum length"]),
              pc |-> "next"]
        ELSE [hooks_config |->
                  AppendGroup(config, event,
                      HookGroup(event, tools, [type |-> "command", command |-> command.value])),
              converted_rules |-> AppendConverted(converted, rule, event, tools, command.value),
              failed_rules |-> failed,
              pc |-> "converted"]

\* the end of the call: what it returns
Finish(srv, config, converted, failed) ==
    IF srv = "v1" THEN ResultV1(config, converted) ELSE ResultV2(config, converted, failed)

IdleConvert ==
    /\ server = [c \in Calls |-> "v1"]
    /\ rules = [c \in Calls |-> ""]
    /\ merge_with_existing = [c \in Calls |-> TRUE]
    /\ pc = [c \in Calls |-> "idle"]
    /\ rule_list = [c \in Calls |-> <<>>]
    /\ idx = [c \in Calls |-> 0]
    /\ hooks_config = [c \in Calls |-> [hooks |-> EmptyDict]]
    /\ converted_rules = [c \in Calls |-> <<>>]
    /\ failed_rules = [c \in Calls |-> <<>>]
    /\ outcome = [c \in Calls |-> NoOutcome]

\* a call whose configuration and converted rules are module-level objects,
\* reset by whichever call starts
Call_SharedLocals(c) ==
    /\ pc[c] = "ready"
    /\ LET b == Begin(server[c], rules[c])
       IN  /\ pc' = [pc EXCEPT ![c] = b.pc]
           /\ rule_list' = [rule_list EXCEPT ![c] = b.rule_list]
           /\ idx' = [idx EXCEPT ![c] = b.idx]
           /\ hooks_config' = [d \in Calls |-> b.hooks_config]
           /\ converted_rules' = [d \in Calls |-> b.converted_rules]
           /\ failed_rules' = [failed_rules EXCEPT ![c] = b.failed_rules]
           /\ outcome' = [outcome EXCEPT ![c] = b.outcome]
    /\ UNCHANGED <<server, rules, merge_with_existing, pureVars, validateVars, detectVars, cliVars, excVars,
                 listVars, requireVars, retryVars>>

\* a call that starts from the groups of an existing configuration when
\* merge_with_existing is set
Call_MergesExisting(c) ==
    /\ pc[c] = "ready"
    /\ LET b == Begin(server[c], rules[c])
           existing == AppendGroup(b.hooks_config, "PostToolUse",
                           HookGroup("PostToolUse", <<"Edit">>,
                               [type |-> "command", command |-> "black ."]))
       IN  /\ pc' = [pc EXCEPT ![c] = b.pc]
           /\ rule_list' = [rule_list EXCEPT ![c] = b.rule_list]
           /\ idx' = [idx EXCEPT ![c] = b.idx]
           /\ hooks_config' = [hooks_config EXCEPT ![c] =
                                  IF merge_with_existing[c] THEN existing ELSE b.hooks_config]
           /\ converted_rules' = [converted_rules EXCEPT ![c] = b.converted_rules]
           /\ failed_rules' = [failed_rules EXCEPT ![c] = b.failed_rules]
           /\ outcome' = [outcome EXCEPT ![c] = b.outcome]
    /\ UNCHANGED <<server, rules, merge_with_existing, pureVars, validateVars, detectVars, cliVars, excVars,
                 listVars, requireVars, retryVars>>

\* convert_rules is called: everything up to the first await
Call(c) ==
    /\ pc[c] = "ready"
    /\ LET b == Begin(server[c], rules[c])
       IN  /\ pc' = [pc EXCEPT ![c] = b.pc]
           /\ rule_list' = [rule_list EXCEPT ![c] = b.rule_list]
           /\ idx' = [idx EXCEPT ![c] = b.idx]
           /\ hooks_config' = [hooks_config EXCEPT ![c] = b.hooks_config]
           /\ converted_rules' = [converted_rules EXCEPT ![c] = b.converted_rules]
           /\ failed_rules' = [failed_rules EXCEPT ![c] = b.failed_rules]
           /\ outcome' = [outcome EXCEPT ![c] = b.outcome]
    /\ UNCHANGED <<server, rules, merge_with_existing, pureVars, validateVars, detectVars, cliVars, excVars,
                 listVars, requireVars, retryVars>>

\* the loop moves to the next rule, or the call returns after the last one
Advance(c, config, converted, failed) ==
    /\ hooks_config' = [hooks_config EXCEPT ![c] = config]
    /\ converted_rules' = [converted_rules EXCEPT ![c] = converted]
    /\ failed_rules' = [failed_rules EXCEPT ![c] = failed]
    /\ IF idx[c] < Len(rule_list[c])
       THEN /\ idx' = [idx EXCEPT ![c] = @ + 1]
            /\ pc' = [pc EXCEPT ![c] = "info"]
            /\ UNCHANGED outcome
       ELSE /\ pc' = [pc EXCEPT ![c] = "done"]
            /\ outcome' = [outcome EXCEPT ![c] = Finish(server[c], config, converted, failed)]
            /\ UNCHANGED idx
    /\ UNCHANGED <<server, rules, merge_with_existing, rule_list, pureVars, validateVars, detectVars, cliVars, excVars,
                 listVars, requireVars, retryVars>>

\* the exception leaves the call
Abort(c, o) ==
    /\ pc' = [pc EXCEPT ![c] = "done"]
    /\ outcome' = [outcome EXCEPT ![c] = o]
    /\ UNCHANGED <<server, rules, merge_with_existing, rule_list, idx,
                   hooks_config, converted_rules, failed_rules, pureVars, validateVars, detectVars, cliVars, excVars,
                 listVars, requireVars, retryVars>>

\* await ctx.info("Analyzing rule ...") returns; the rule is analysed
InfoDelivered(c) ==
    /\ pc[c] = "info"
    /\ LET a == Analyze(server[c], rule_list[c][idx[c]],
                        hooks_config[c], converted_rules[c], failed_rules[c])
       IN  IF a.pc = "next"
           THEN Advance(c, a.hooks_config, a.converted_rules, a.failed_rules)
           ELSE /\ pc' = [pc EXCEPT ![c] = a.pc]
                /\ hooks_config' = [hooks_config EXCEPT ![c] = a.hooks_config]
                /\ converted_rules' = [converted_rules EXCEPT ![c] = a.converted_rules]
                /\ failed_rules' = [failed_rules EXCEPT ![c] = a.failed_rules]
                /\ UNCHANGED <<server, rules, merge_with_existing, rule_list, idx,
                               outcome, pureVars, validateVars, detectVars, cliVars, excVars,
                 listVars, requireVars, retryVars>>

\* await ctx.warning(...) returns
WarningDelivered(c) ==
    /\ pc[c] = "warning"
    /\ Advance(c, hooks_config[c], converted_rules[c], failed_rules[c])

\* await ctx.info("Converted: ...") returns
ConvertedDelivered(c) ==
    /\ pc[c] = "converted"
    /\ Advance(c, hooks_config[c], converted_rules[c], failed_rules[c])

\* v2's handler for an unexpected exception inside the loop body
UnexpectedError(c) ==
    Append(failed_rules[c], [rule |-> rule_list[c][idx[c]],
                             error |-> "Unexpected error: " \o ObserverError])

\* await ctx.info("Analyzing rule ...") raises: v1 has no handler, v2 records
\* the rule as failed without analysing it
InfoRaises(c) ==
    /\ pc[c] = "info"
    /\ IF server[c] = "v1"
       THEN Abort(c, Raised("Exception", ObserverError))
       ELSE Advance(c, hooks_config[c], converted_rules[c], UnexpectedError(c))

\* await ctx.warning(...) raises: in v2 inside the RuleParsingError handler,
\* so the exception reaches the outer handler and is wrapped
WarningRaises(c) ==
    /\ pc[c] = "warning"
    /\ IF server[c] = "v1"
       THEN Abort(c, Raised("Exception", ObserverError))
       ELSE Abort(c, Raised("ToolExecutionError",
                            "Tool 'convert_rules' failed: " \o ObserverError))

\* await ctx.info("Converted: ...") raises, after the rule was appended: v2
\* records the converted rule as failed as well
ConvertedRaises(c) ==
    /\ pc[c] = "converted"
    /\ IF server[c] = "v1"
       THEN Abort(c, Raised("Exception", ObserverError))
       ELSE Advance(c, hooks_config[c], converted_rules[c], UnexpectedError(c))

\* a whole call with every notification delivered, as one function of its
\* arguments: the composition of Begin, Analyze per rule, and Finish
RECURSIVE RunLoop(_, _, _, _, _, _)
RunLoop(srv, list, i, config, converted, failed) ==
    IF i > Len(list) THEN Finish(srv, config, converted, failed)
    ELSE LET a == Analyze(srv, list[i], config, converted, failed)
         IN  RunLoop(srv, list, i + 1, a.hooks_config, a.converted_rules, a.failed_rules)

RunDelivered(srv, text) ==
    LET b == Begin(srv, text)
    IN  IF b.pc = "done" THEN b.outcome
        ELSE RunLoop(srv, b.rule_list, 1, b.hooks_config, b.converted_rules, b.failed_rules)

(***************************************************************************)
(* Hooks Validator: validate_hooks.                                        *)
(* A parsed JSON value is a record tagged with its type; an object keeps   *)
(* its members in document order, as a Python dict does.                   *)
(***************************************************************************)
JObject(items) == [type |-> "object", items |-> items]

JArray(elems) == [type |-> "array", elems |-> elems]

JString(s) == [type |-> "string", str |-> s]

JNumber(n) == [type |-> "number", num |-> n]

JBool(b) == [type |-> "bool", b |-> b]

JNull == [type |-> "null"]

\* one member of an object
Member(key, value) == [key |-> key, value |-> value]

\* Python: key in obj
Has(obj, key) == \E i \in 1..Len(obj.items) : obj.items[i].key = key

\* Python: obj.get(key, default)
Get(obj, key, default) ==
    IF Has(obj, key)
    THEN obj.items[CHOOSE i \in 1..Len(obj.items) : obj.items[i].key = key].value
    ELSE default

\* Python truthiness of a parsed value
PyTruthy(v) ==
    CASE v.type = "null" -> FALSE
      [] v.type = "bool" -> v.b
      [] v.type = "number" -> v.num # 0
      [] v.type = "string" -> v.str # ""
      [] v.type = "array" -> v.elems # <<>>
      [] v.type = "object" -> v.items # <<>>

\* Python: how an f-string renders a scalar parsed value
PyStr(v) ==
    CASE v.type = "null" -> "None"
      [] v.type = "bool" -> IF v.b THEN "True" ELSE "False"
      [] v.type = "number" -> Str(v.num)
      [] v.type = "string" -> v.str

\* the locals of validate_hooks; raised is the text of the TypeError that
\* ended the call, if one did
NoFindings ==
    [issues |-> <<>>, warnings |-> <<>>, hook_count |-> 0,
     hooks_summary |-> <<>>, raised |-> ""]

\* a loop body that already shortens a command of 50 characters
HookStep_TruncatesAtFifty(st, event, i, j, matcher, hook) ==
    LET at == event \o "[" \o Str(i) \o "].hooks[" \o Str(j) \o "]"
    IN  IF hook.type # "object"
        THEN [st EXCEPT !.issues = Append(@, at \o " must be an object")]
        ELSE
        LET hook_type == Get(hook, "type", JNull)
            command == Get(hook, "command", JNull)
            typed == IF hook_type # JString("command")
                     THEN [st EXCEPT !.warnings =
                              Append(@, at \o " has type: " \o PyStr(hook_type)
                                           \o " (expected: command)")]
                     ELSE st
        IN  IF ~PyTruthy(command)
            THEN [typed EXCEPT !.issues = Append(@, at \o " missing command")]
            ELSE IF command.type \in {"number", "bool"}
            \* len(command) raises TypeError after the count was incremented
            THEN [typed EXCEPT !.hook_count = @ + 1,
                     !.raised = IF command.type = "number"
                                THEN "object of type 'int' has no len()"
                                ELSE "object of type 'bool' has no len()"]
            ELSE IF command.type \in {"array", "object"}
            \* a container is summarised as it is while it has at most 50
            \* members; beyond that the slice raises
            THEN IF (IF command.type = "array" THEN Len(command.elems)
                     ELSE Len(command.items)) > 50
                 THEN [typed EXCEPT !.hook_count = @ + 1,
                          !.raised = IF command.type = "array"
                                     THEN "can only concatenate list (not \"str\") to list"
                                     ELSE "unhashable type: 'slice'"]
                 ELSE [typed EXCEPT !.hook_count = @ + 1,
                          !.hooks_summary = Append(@,
                              [event |-> event,
                               matcher |-> IF PyTruthy(matcher) THEN matcher
                                           ELSE JString("All tools"),
                               command |-> command])]
            ELSE [typed EXCEPT !.hook_count = @ + 1,
                     !.hooks_summary = Append(@,
                         [event |-> event,
                          matcher |-> IF PyTruthy(matcher) THEN matcher
                                      ELSE JString("All tools"),
                          command |-> IF Len(command.str) >= 50
                                      THEN JString(SubSeq(command.str, 1, 50) \o "...")
                                      ELSE command])]

\* the body of "for j, hook in enumerate(hook_list)"
HookStep(st, event, i, j, matcher, hook) ==
    LET at == event \o "[" \o Str(i) \o "].hooks[" \o Str(j) \o "]"
    IN  IF hook.type # "object"
        THEN [st EXCEPT !.issues = Append(@, at \o " must be an object")]
        ELSE
        LET hook_type == Get(hook, "type", JNull)
            command == Get(hook, "command", JNull)
            typed == IF hook_type # JString("command")
                     THEN [st EXCEPT !.warnings =
                              Append(@, at \o " has type: " \o PyStr(hook_type)
                                           \o " (expected: command)")]
                     ELSE st
        IN  IF ~PyTruthy(command)
            THEN [typed EXCEPT !.issues = Append(@, at \o " missing command")]
            ELSE IF command.type \in {"number", "bool"}
            \* len(command) raises TypeError after the count was incremented
            THEN [typed EXCEPT !.hook_count = @ + 1,
                     !.raised = IF command.type = "number"
                                THEN "object of type 'int' has no len()"
                                ELSE "object of type 'bool' has no len()"]
            ELSE IF command.type \in {"array", "object"}
            \* a container is summarised as it is while it has at most 50
            \* members; beyond that the slice raises
            THEN IF (IF command.type = "array" THEN Len(command.elems)
                     ELSE Len(command.items)) > 50
                 THEN [typed EXCEPT !.hook_count = @ + 1,
                          !.raised = IF command.type = "array"
                                     THEN "can only concatenate list (not \"str\") to list"
                                     ELSE "unhashable type: 'slice'"]
                 ELSE [typed EXCEPT !.hook_count = @ + 1,
                          !.hooks_summary = Append(@,
                              [event |-> event,
                               matcher |-> IF PyTruthy(matcher) THEN matcher
                                           ELSE JString("All tools"),
                               command |-> command])]
            ELSE [typed EXCEPT !.hook_count = @ + 1,
                     !.hooks_summary = Append(@,
                         [event |-> event,
                          matcher |-> IF PyTruthy(matcher) THEN matcher
                                      ELSE JString("All tools"),
                          command |-> IF Len(command.str) > 50
                                      THEN JString(SubSeq(command.str, 1, 50) \o "...")
                                      ELSE command])]

\* for j, hook in enumerate(hook_list), from the j-th entry (counted from 1)
RECURSIVE HookLoop(_, _, _, _, _, _)
HookLoop(st, event, i, matcher, hook_list, j) ==
    IF j > Len(hook_list) \/ st.raised # "" THEN st
    ELSE HookLoop(HookStep(st, event, i, j - 1, matcher, hook_list[j]),
                  event, i, matcher, hook_list, j + 1)

\* the body of "for i, hook_group in enumerate(event_hooks)"
GroupStep(st, event, i, hook_group) ==
    LET at == event \o "[" \o Str(i) \o "]"
    IN  IF hook_group.type # "object"
        THEN [st EXCEPT !.issues = Append(@, at \o " must be an object")]
        ELSE IF ~Has(hook_group, "hooks")
        THEN [st EXCEPT !.issues = Append(@, at \o " missing 'hooks' array")]
        ELSE IF Get(hook_group, "hooks", JNull).type # "array"
        THEN [st EXCEPT !.issues = Append(@, at \o ".hooks must be an array")]
        ELSE HookLoop(st, event, i, Get(hook_group, "matcher", JString("")),
                      Get(hook_group, "hooks", JNull).elems, 1)

\* for i, hook_group in enumerate(event_hooks), from the i-th group (from 1)
RECURSIVE GroupLoop(_, _, _, _)
GroupLoop(st, event, event_hooks, i) ==
    IF i > Len(event_hooks) \/ st.raised # "" THEN st
    ELSE GroupLoop(GroupStep(st, event, i - 1, event_hooks[i]),
                   event, event_hooks, i + 1)

\* a validator that does not know the Stop event
valid_events_WithoutStop == {"PreToolUse", "PostToolUse", "Notification"}

valid_events == {"PreToolUse", "PostToolUse", "Stop", "Notification"}

\* the head of "for event, event_hooks in hooks.items()", from the k-th
\* member on: events whose value is no array are dealt with on the way, and
\* the loop is suspended at the ctx.info of the first event that has one;
\* after the last event the call is suspended at ctx.report_progress
RECURSIVE NextEvent(_, _, _)
NextEvent(st, items, k) ==
    IF k > Len(items) THEN [st |-> st, event |-> k, pc |-> "progress"]
    ELSE LET event == items[k].key
             known == IF event \notin valid_events
                      THEN [st EXCEPT !.warnings = Append(@, "Unknown event type: " \o event)]
                      ELSE st
         IN  IF items[k].value.type # "array"
             THEN NextEvent([known EXCEPT !.issues =
                                Append(@, "Value of " \o event \o " must be an array")],
                            items, k + 1)
             ELSE [st |-> known, event |-> k, pc |-> "event"]

\* the early return of a structural violation at the root
InvalidStructure(issue) ==
    [status |-> "error", message |-> "Invalid structure", issues |-> <<issue>>]

\* root checks that record the violation and go on to the closing return
RootChecks_Accumulate(config) ==
    LET Go(issue) == [pc |-> "progress",
                      st |-> [NoFindings EXCEPT !.issues = <<issue>>],
                      result |-> NoOutcome]
    IN  IF config.type # "object" THEN Go("Root element must be an object")
        ELSE IF ~Has(config, "hooks") THEN Go("Missing 'hooks' key")
        ELSE IF Get(config, "hooks", JNull).type # "object"
             THEN Go("'hooks' must be an object")
        ELSE [pc |-> "loop", st |-> NoFindings, result |-> NoOutcome]

\* the three root checks: each appends its issue and returns at once
RootChecks(config) ==
    LET Stop(issue) == [pc |-> "done",
                        st |-> [NoFindings EXCEPT !.issues = <<issue>>],
                        result |-> Returned(InvalidStructure(issue))]
    IN  IF config.type # "object" THEN Stop("Root element must be an object")
        ELSE IF ~Has(config, "hooks") THEN Stop("Missing 'hooks' key")
        ELSE IF Get(config, "hooks", JNull).type # "object"
             THEN Stop("'hooks' must be an object")
        ELSE [pc |-> "loop", st |-> NoFindings, result |-> NoOutcome]

\* a closing return that lets warnings fail the document
ValidationResult_WarningsFail(st) ==
    [status |-> IF st.issues = <<>> /\ st.warnings = <<>> THEN "success" ELSE "error",
     message |-> "Found " \o Str(st.hook_count) \o " valid hooks",
     issues |-> st.issues,
     warnings |-> st.warnings,
     hooks_summary |-> st.hooks_summary,
     total_hooks |-> st.hook_count]

\* the closing return
ValidationResult(st) ==
    [status |-> IF st.issues = <<>> THEN "success" ELSE "error",
     message |-> "Found " \o Str(st.hook_count) \o " valid hooks",
     issues |-> st.issues,
     warnings |-> st.warnings,
     hooks_summary |-> st.hooks_summary,
     total_hooks |-> st.hook_count]

\* config before json.load has bound it
Unbound == [type |-> "unbound"]

IdleValidate ==
    /\ v_file = [kind |-> "missing", path |-> ""]
    /\ v_pc = "idle"
    /\ v_config = Unbound
    /\ v_event = 0
    /\ v_st = NoFindings
    /\ v_result = NoOutcome

\* the call up to its first await: the file is looked up and parsed
ValidateCall ==
    /\ v_pc = "ready"
    /\ IF v_file.kind = "missing"
       THEN /\ v_pc' = "done"
            /\ v_result' = Returned([status |-> "error",
                   message |-> "File does not exist: " \o v_file.path])
            /\ UNCHANGED v_config
       ELSE IF v_file.kind = "invalid"
       THEN /\ v_pc' = "done"
            /\ v_result' = Returned([status |-> "error",
                   message |-> "JSON parsing error: " \o v_file.error])
            /\ UNCHANGED v_config
       ELSE /\ v_pc' = "parsed"
            /\ v_config' = v_file.doc
            /\ UNCHANGED v_result
    /\ UNCHANGED <<v_file, v_event, v_st, pureVars, convertVars, detectVars, cliVars, excVars,
                 listVars, requireVars, retryVars>>

\* ctx.info("Successfully parsed JSON") returns: the root checks, then the
\* loop over the events up to its first await
ParsedDelivered ==
    /\ v_pc = "parsed"
    /\ LET root == RootChecks(v_config)
       IN  IF root.pc = "loop"
           THEN LET to == NextEvent(root.st, Get(v_config, "hooks", JNull).items, 1)
                IN  /\ v_pc' = to.pc
                    /\ v_st' = to.st
                    /\ v_event' = to.event
                    /\ UNCHANGED v_result
           ELSE /\ v_pc' = root.pc
                /\ v_st' = root.st
                /\ v_result' = root.result
                /\ UNCHANGED v_event
    /\ UNCHANGED <<v_file, v_config, pureVars, convertVars, detectVars, cliVars, excVars,
                 listVars, requireVars, retryVars>>

\* ctx.info("Validating ...") returns: the groups of the event, then the
\* loop over the events up to its next await
EventDelivered ==
    /\ v_pc = "event"
    /\ LET items == Get(v_config, "hooks", JNull).items
           st == GroupLoop(v_st, items[v_event].key, items[v_event].value.elems, 1)
       IN  IF st.raised # ""
           THEN /\ v_pc' = "done"
                /\ v_st' = st
                /\ v_result' = Raised("TypeError", st.raised)
                /\ UNCHANGED v_event
           ELSE LET to == NextEvent(st, items, v_event + 1)
                IN  /\ v_pc' = to.pc
                    /\ v_st' = to.st
                    /\ v_event' = to.event
                    /\ UNCHANGED v_result
    /\ UNCHANGED <<v_file, v_config, pureVars, convertVars, detectVars, cliVars, excVars,
                 listVars, requireVars, retryVars>>

\* ctx.report_progress returns: the closing return
ProgressDelivered ==
    /\ v_pc = "progress"
    /\ v_pc' = "done"
    /\ v_result' = Returned(ValidationResult(v_st))
    /\ UNCHANGED <<v_file, v_config, v_event, v_st, pureVars, convertVars, detectVars, cliVars, excVars,
                 listVars, requireVars, retryVars>>

(***************************************************************************)
(* Round trip: the configuration returned by convert_rules is written out  *)
(* as JSON (the "json" member of the result) and read back by              *)
(* validate_hooks.                                                         *)
(***************************************************************************)
\* the keys of hooks_config["hooks"] in insertion order: the events of the
\* converted rules in the order of their first conversion
RECURSIVE InsertionOrder(_, _)
InsertionOrder(converted, seen) ==
    IF converted = <<>> THEN <<>>
    ELSE IF Head(converted).event \in seen
         THEN InsertionOrder(Tail(converted), seen)
         ELSE <<Head(converted).event>>
                  \o InsertionOrder(Tail(converted), seen \cup {Head(converted).event})

\* json.loads(json.dumps(hook_group))
DumpGroup(hook_group) ==
    LET entries == [j \in 1..Len(hook_group.hooks) |->
                       JObject(<<Member("type", JString(hook_group.hooks[j].type)),
                                 Member("command", JString(hook_group.hooks[j].command))>>)]
    IN  IF "matcher" \in DOMAIN hook_group
        THEN JObject(<<Member("matcher", JString(hook_group.matcher)),
                       Member("hooks", JArray(entries))>>)
        ELSE JObject(<<Member("hooks", JArray(entries))>>)

\* json.loads(json.dumps(hooks_config, indent=2))
Dumps(config, converted) ==
    LET order == InsertionOrder(converted, {})
        keys == SelectSeq(order, LAMBDA e : e \in DOMAIN config.hooks)
    IN  JObject(<<Member("hooks",
            JObject([k \in 1..Len(keys) |->
                Member(keys[k],
                       JArray([i \in 1..Len(config.hooks[keys[k]]) |->
                                  DumpGroup(config.hooks[keys[k]][i])]))]))>>)

\* the returned configuration is saved as the hooks file and validate_hooks
\* is about to be called on it
SaveConfig ==
    /\ pc[1] = "done"
    /\ outcome[1].kind = "return"
    /\ "hooks_config" \in DOMAIN outcome[1].value
    /\ v_pc = "idle"
    /\ v_file' = [kind |-> "json", path |-> "/project/.claude/hooks.json",
                  doc |-> Dumps(outcome[1].value.hooks_config,
                                outcome[1].value.converted_rules)]
    /\ v_pc' = "ready"
    /\ UNCHANGED <<v_config, v_event, v_st, v_result, pureVars, convertVars, detectVars,
                   cliVars, excVars, listVars, requireVars, retryVars>>

(***************************************************************************)
(* Conflict Detector: detect_conflicts.                                    *)
(***************************************************************************)
\* hook_group.get("hooks", [{}])[0].get("command", "")
FirstCommand(hook_group) ==
    Get(Get(hook_group, "hooks", JArray(<<JObject(<<>>)>>)).elems[1], "command", JString(""))

\* hook_group.get("hooks", [{}])[0] raises IndexError: the group has a hooks
\* array and it is empty
FirstCommandRaises(hook_group) ==
    Get(hook_group, "hooks", JArray(<<JObject(<<>>)>>)).elems = <<>>

\* building existing_matchers raises: some group with a matcher has an empty
\* hooks array
IndexRaises(existing_hooks) ==
    \E k \in 1..Len(existing_hooks.items) :
        \E i \in 1..Len(existing_hooks.items[k].value.elems) :
            /\ PyTruthy(Get(existing_hooks.items[k].value.elems[i], "matcher", JString("")))
            /\ FirstCommandRaises(existing_hooks.items[k].value.elems[i])

\* an index that keeps the first group of each matcher
IndexGroups_KeepFirst(hooks_list, i, byMatcher) ==
    LET withMatcher == {n \in 1..Len(hooks_list) :
                           PyTruthy(Get(hooks_list[n], "matcher", JString("")))}
        matchers == {Get(hooks_list[n], "matcher", JString("")).str : n \in withMatcher}
    IN  [m \in matchers |->
            FirstCommand(hooks_list[Min({n \in withMatcher :
                Get(hooks_list[n], "matcher", JString("")).str = m})])]

\* the inner loop that fills existing_matchers[event]: a later group
\* overwrites an earlier one with the same matcher
RECURSIVE IndexGroups(_, _, _)
IndexGroups(hooks_list, i, byMatcher) ==
    IF i > Len(hooks_list) THEN byMatcher
    ELSE LET matcher == Get(hooks_list[i], "matcher", JString(""))
         IN  IF PyTruthy(matcher)
             THEN IndexGroups(hooks_list, i + 1,
                      [m \in DOMAIN byMatcher \cup {matcher.str} |->
                          IF m = matcher.str THEN FirstCommand(hooks_list[i])
                          ELSE byMatcher[m]])
             ELSE IndexGroups(hooks_list, i + 1, byMatcher)

\* existing_matchers: for each event of the existing document the commands
\* indexed by matcher
BuildIndex(existing_hooks) ==
    [event \in {existing_hooks.items[k].key : k \in 1..Len(existing_hooks.items)} |->
        IndexGroups(Get(existing_hooks, event, JNull).elems, 1, EmptyDict)]

\* a test that lets two groups collide only when their commands differ
IsConflict_CommandsDiffer(existing_matchers, event, new_hook_group) ==
    LET new_matcher == Get(new_hook_group, "matcher", JString(""))
    IN  /\ event \in DOMAIN existing_matchers
        /\ PyTruthy(new_matcher)
        /\ new_matcher.str \in DOMAIN existing_matchers[event]
        /\ existing_matchers[event][new_matcher.str] # FirstCommand(new_hook_group)

\* the test of the inner loop over the new document
IsConflict(existing_matchers, event, new_hook_group) ==
    LET new_matcher == Get(new_hook_group, "matcher", JString(""))
    IN  /\ event \in DOMAIN existing_matchers
        /\ PyTruthy(new_matcher)
        /\ new_matcher.str \in DOMAIN existing_matchers[event]

\* the conflict appended for a colliding group
ConflictOf(existing_matchers, event, new_hook_group) ==
    LET new_matcher == Get(new_hook_group, "matcher", JString(""))
    IN  [event |-> event,
         matcher |-> new_matcher.str,
         existing_command |-> existing_matchers[event][new_matcher.str],
         new_command |-> FirstCommand(new_hook_group)]

\* the two loops over the new document from group i of event k on, up to
\* the next colliding group (where the call awaits ctx.warning) or the end
RECURSIVE NextConflict(_, _, _, _)
NextConflict(existing_matchers, items, k, i) ==
    IF k > Len(items) THEN [found |-> FALSE, event |-> k, group |-> i]
    ELSE IF i > Len(items[k].value.elems)
         THEN NextConflict(existing_matchers, items, k + 1, 1)
    ELSE IF IsConflict(existing_matchers, items[k].key, items[k].value.elems[i])
         THEN [found |-> TRUE, event |-> k, group |-> i]
    ELSE NextConflict(existing_matchers, items, k, i + 1)

\* the closing return
ConflictsResult(conflicts) ==
    [status |-> "success",
     message |-> IF conflicts # <<>>
                 THEN "Found " \o Str(Len(conflicts)) \o " conflicts"
                 ELSE "No conflicts found",
     has_conflicts |-> Len(conflicts) > 0,
     conflicts |-> conflicts]

\* the loops resume at group i of event k
Resume(existing_matchers, k, i, conflicts) ==
    LET items == Get(d_new.doc, "hooks", JObject(<<>>)).items
        to == NextConflict(existing_matchers, items, k, i)
    IN  IF to.found /\ FirstCommandRaises(items[to.event].value.elems[to.group])
        THEN /\ d_pc' = "done"
             /\ d_result' = Raised("IndexError", "list index out of range")
             /\ UNCHANGED <<d_event, d_group, d_conflicts>>
        ELSE IF to.found
        THEN /\ d_pc' = "warning"
             /\ d_event' = to.event
             /\ d_group' = to.group
             /\ d_conflicts' = Append(conflicts,
                    ConflictOf(existing_matchers, items[to.event].key,
                               items[to.event].value.elems[to.group]))
             /\ UNCHANGED d_result
        ELSE /\ d_pc' = "done"
             /\ d_result' = Returned(ConflictsResult(conflicts))
             /\ UNCHANGED <<d_event, d_group, d_conflicts>>

\* the call up to its first await or its return
DetectCall ==
    /\ d_pc = "ready"
    /\ IF d_existing.kind = "missing"
       THEN /\ d_pc' = "done"
            /\ d_result' = Returned([status |-> "success",
                   message |-> "No existing hooks file - no conflicts possible",
                   has_conflicts |-> FALSE])
            /\ UNCHANGED <<d_matchers, d_event, d_group, d_conflicts>>
       ELSE IF d_existing.kind = "invalid" \/ d_new.kind = "invalid"
       THEN /\ d_pc' = "done"
            /\ d_result' = Returned([status |-> "error",
                   message |-> "JSON parsing error: " \o
                       (IF d_existing.kind = "invalid" THEN d_existing.error
                        ELSE d_new.error)])
            /\ UNCHANGED <<d_matchers, d_event, d_group, d_conflicts>>
       ELSE IF IndexRaises(Get(d_existing.doc, "hooks", JObject(<<>>)))
       THEN /\ d_pc' = "done"
            /\ d_result' = Raised("IndexError", "list index out of range")
            /\ UNCHANGED <<d_matchers, d_event, d_group, d_conflicts>>
       ELSE LET existing_matchers ==
                    BuildIndex(Get(d_existing.doc, "hooks", JObject(<<>>)))
            IN  /\ d_matchers' = existing_matchers
                /\ Resume(existing_matchers, 1, 1, <<>>)
    /\ UNCHANGED <<d_existing, d_new, pureVars, convertVars, validateVars, cliVars, excVars,
                 listVars, requireVars, retryVars>>

\* await ctx.warning("Conflict in ...") returns
ConflictWarningDelivered ==
    /\ d_pc = "warning"
    /\ Resume(d_matchers, d_event, d_group + 1, d_conflicts)
    /\ UNCHANGED <<d_existing, d_new, d_matchers,
                   pureVars, convertVars, validateVars, cliVars, excVars,
                 listVars, requireVars, retryVars>>

(***************************************************************************)
(* Companion command-line validator (validate-hooks.py), single-file mode. *)
(* What it prints is not modelled; what it returns and the exit code are.  *)
(***************************************************************************)
\* the loop over the entries of one group raises: a truthy command that is
\* neither a string nor a list cannot be sliced by command[:50]
EntriesRaise(hook_list) ==
    \E j \in 1..Len(hook_list) :
        /\ hook_list[j].type = "object"
        /\ PyTruthy(Get(hook_list[j], "command", JNull))
        /\ Get(hook_list[j], "command", JNull).type \notin {"string", "array"}

\* the loop over the groups of one event raises; malformed groups and
\* entries are reported and passed over
GroupsRaise(event_hooks) ==
    \E i \in 1..Len(event_hooks) :
        /\ event_hooks[i].type = "object"
        /\ Has(event_hooks[i], "hooks")
        /\ Get(event_hooks[i], "hooks", JNull).type = "array"
        /\ EntriesRaise(Get(event_hooks[i], "hooks", JNull).elems)

\* the loop over the events from the k-th on: "false" at the first event
\* whose value is no array, "raised" at the first group loop that raises,
\* "true" at the end
RECURSIVE FileEvents(_, _)
FileEvents(items, k) ==
    IF k > Len(items) THEN "true"
    ELSE IF items[k].value.type # "array" THEN "false"
    ELSE IF GroupsRaise(items[k].value.elems) THEN "raised"
    ELSE FileEvents(items, k + 1)

\* validate_hooks_file(file_path): what it returns, or that it raised
validate_hooks_file(file) ==
    IF file.kind = "missing" THEN "false"
    ELSE IF file.kind = "invalid" THEN "false"
    ELSE IF file.doc.type # "object" THEN "false"
    ELSE IF ~Has(file.doc, "hooks") THEN "false"
    ELSE IF Get(file.doc, "hooks", JNull).type # "object" THEN "false"
    ELSE FileEvents(Get(file.doc, "hooks", JNull).items, 1)

\* display_hooks_summary raises on a group that is no object (it has no
\* get), on a hooks value that cannot be iterated, and on an entry (or a key
\* or character iterated in its place) that is no object
display_raises(doc) ==
    LET items == Get(doc, "hooks", JObject(<<>>)).items
    IN  \E k \in 1..Len(items) : \E i \in 1..Len(items[k].value.elems) :
            LET hook_group == items[k].value.elems[i]
            IN  \/ hook_group.type # "object"
                \/ /\ hook_group.type = "object"
                   /\ LET hook_list == Get(hook_group, "hooks", JArray(<<>>))
                      IN  CASE hook_list.type = "array" ->
                                   \E j \in 1..Len(hook_list.elems) :
                                       hook_list.elems[j].type # "object"
                            [] hook_list.type = "object" -> hook_list.items # <<>>
                            [] hook_list.type = "string" -> hook_list.str # ""
                            [] OTHER -> TRUE

\* len(sys.argv) == 2: validate_hooks_file(hooks_file) is called
CliValidate ==
    /\ c_pc = "start"
    /\ c_valid' = validate_hooks_file(c_file)
    /\ IF validate_hooks_file(c_file) = "raised"
       \* the traceback ends the interpreter with exit code 1
       THEN c_pc' = "exited" /\ c_exit' = 1
       ELSE c_pc' = "validated" /\ UNCHANGED c_exit
    /\ UNCHANGED <<c_file, pureVars, convertVars, validateVars, detectVars, excVars,
                 listVars, requireVars, retryVars>>

\* the file passed: display_hooks_summary(hooks_file), then the end of the
\* script
CliDisplay ==
    /\ c_pc = "validated"
    /\ c_valid = "true"
    /\ c_pc' = "exited"
    /\ c_exit' = IF display_raises(c_file.doc) THEN 1 ELSE 0
    /\ UNCHANGED <<c_file, c_valid, pureVars, convertVars, validateVars, detectVars, excVars,
                 listVars, requireVars, retryVars>>

\* the file failed: "Validation failed", sys.exit(1)
CliFail ==
    /\ c_pc = "validated"
    /\ c_valid = "false"
    /\ c_pc' = "exited"
    /\ c_exit' = 1
    /\ UNCHANGED <<c_file, c_valid, pureVars, convertVars, validateVars, detectVars, excVars,
                 listVars, requireVars, retryVars>>

IdleDetect ==
    /\ d_existing = [kind |-> "missing", path |-> ""]
    /\ d_new = [kind |-> "invalid", error |-> ""]
    /\ d_pc = "idle"
    /\ d_matchers = EmptyDict
    /\ d_event = 0
    /\ d_group = 0
    /\ d_conflicts = <<>>
    /\ d_result = NoOutcome

IdleCli ==
    /\ c_file = [kind |-> "missing", path |-> ""]
    /\ c_pc = "idle"
    /\ c_valid = "unset"
    /\ c_exit = -1

IdleExc ==
    /\ e_args = <<>>
    /\ e_pc = "idle"
    /\ e_exc = [class |-> "none"]
    /\ e_str = ""

IdleList ==
    /\ l_project = [is_dir |-> FALSE, files |-> <<>>]
    /\ l_pc = "idle"
    /\ l_idx = 0
    /\ l_all_rules = <<>>
    /\ l_files_found = <<>>
    /\ l_result = NoOutcome

IdleRequire ==
    /\ q_args = <<>>
    /\ q_conditions = <<>>
    /\ q_pc = "idle"
    /\ q_i = 0
    /\ q_bound = <<>>
    /\ q_outcome = NoOutcome

IdleRetry ==
    /\ t_max_attempts = 0
    /\ t_delay = 0
    /\ t_func = <<>>
    /\ t_pc = "idle"
    /\ t_attempt = 0
    /\ t_calls = 0
    /\ t_sleeps = <<>>
    /\ t_last_exception = None
    /\ t_outcome = NoOutcome

(***************************************************************************)
(* The exceptions of exceptions.py: an exception object is a record of its *)
(* class and attributes; a details dict is a parsed object, None is JNull. *)
(***************************************************************************)
\* Rule2HookError.__init__(message, details)
Rule2HookError(class, message, details) ==
    [class |-> class,
     message |-> message,
     details |-> IF PyTruthy(details) THEN details ELSE JObject(<<>>)]

\* Rule2HookError.__str__
RECURSIVE DetailPairs(_)
DetailPairs(items) ==
    IF items = <<>> THEN <<>>
    ELSE <<items[1].key \o "=" \o PyStr(items[1].value)>> \o DetailPairs(Tail(items))

__str__(self) ==
    IF PyTruthy(self.details)
    THEN self.message \o " (" \o Join(", ", DetailPairs(self.details.items)) \o ")"
    ELSE self.message

\* FileOperationError.__init__(operation, path, reason, details)
FileOperationError(operation, path, reason, details) ==
    Rule2HookError("FileOperationError",
                   "Failed to " \o operation \o " file '" \o path \o "': " \o reason,
                   IF PyTruthy(details) THEN details
                   ELSE JObject(<<Member("operation", JString(operation)),
                                  Member("path", JString(path))>>))
        @@ [operation |-> operation, path |-> path]

\* ToolExecutionError.__init__(tool_name, reason, details)
ToolExecutionError(tool_name, reason, details) ==
    Rule2HookError("ToolExecutionError",
                   "Tool '" \o tool_name \o "' failed: " \o reason,
                   IF PyTruthy(details) THEN details
                   ELSE JObject(<<Member("tool", JString(tool_name))>>))
        @@ [tool_name |-> tool_name]

\* exc = FileOperationError(...) or exc = ToolExecutionError(...)
Construct ==
    /\ e_pc = "ready"
    /\ e_exc' = IF e_args.class = "FileOperationError"
                THEN FileOperationError(e_args.operation, e_args.path, e_args.reason,
                                        e_args.details)
                ELSE ToolExecutionError(e_args.tool_name, e_args.reason, e_args.details)
    /\ e_pc' = "built"
    /\ UNCHANGED <<e_args, e_str, pureVars, convertVars, validateVars, detectVars, cliVars,
                 listVars, requireVars, retryVars>>

\* str(exc)
Format ==
    /\ e_pc = "built"
    /\ e_str' = __str__(e_exc)
    /\ e_pc' = "shown"
    /\ UNCHANGED <<e_args, e_exc, pureVars, convertVars, validateVars, detectVars, cliVars,
                 listVars, requireVars, retryVars>>

(***************************************************************************)
(* Rule lister: list_project_rules.  A project is a directory flag and the *)
(* three CLAUDE.md candidates in the order of claude_files, each present   *)
(* with its content or absent.                                             *)
(***************************************************************************)
claude_files == <<"/project/CLAUDE.md", "/project/CLAUDE.local.md", "/home/.claude/CLAUDE.md">>

\* Python: s.startswith(prefix)
StartsWith(s, prefix) == Len(s) >= Len(prefix) /\ SubSeq(s, 1, Len(prefix)) = prefix

\* Python: s.lstrip(chars)
LStrip(s, chars) ==
    LET keep == {i \in 1..Len(s) : CharAt(s, i) \notin chars}
    IN  IF keep = {} THEN "" ELSE SubSeq(s, Min(keep), Len(s))

\* a scan that never leaves a rules section once it is entered
LineStep_NeverLeaves(st, line) ==
    LET rule == Strip(LStrip(Strip(line), {"-", "*"}))
    IN  IF Contains(Lower(line), "rules") /\ StartsWith(line, "#")
        THEN <<TRUE, st[2]>>
        ELSE IF st[1] /\ (StartsWith(Strip(line), "-") \/ StartsWith(Strip(line), "*"))
                      /\ rule # ""
        THEN <<st[1], Append(st[2], rule)>>
        ELSE st

\* one turn of `for line in content.split('\n')`: st is <<in_rules_section, rules>>, found the rules so far
LineStep(st, line) ==
    LET line_lower == Lower(line)
        in_rules_section == st[1]
        found == st[2]
    IN  IF Contains(line_lower, "rules") /\ StartsWith(line, "#")
        THEN <<TRUE, found>>
        ELSE LET inside == IF in_rules_section /\ StartsWith(line, "#")
                                 /\ ~Contains(line_lower, "rules")
                           THEN FALSE ELSE in_rules_section
                 rule == Strip(LStrip(Strip(line), {"-", "*"}))
             IN  IF inside /\ (StartsWith(Strip(line), "-") \/ StartsWith(Strip(line), "*"))
                           /\ rule # ""
                 THEN <<inside, Append(found, rule)>>
                 ELSE <<inside, found>>

RECURSIVE LineLoop(_, _)
LineLoop(st, lines) ==
    IF lines = <<>> THEN st ELSE LineLoop(LineStep(st, Head(lines)), Tail(lines))

\* the rules of one file
FileRules(content) == LineLoop(<<FALSE, <<>>>>, ReSplit(content, {"\n"}))[2]

\* the next candidate after position i that exists, 0 when there is none
NextFile(files, i) ==
    LET later == {k \in (i + 1)..Len(files) : files[k].exists}
    IN  IF later = {} THEN 0 ELSE Min(later)

ListResult(all_rules, files_found) ==
    Returned([status |-> "success",
              message |-> "Found " \o Str(Len(all_rules)) \o " rules in "
                              \o Str(Len(files_found)) \o " files",
              files_found |-> files_found,
              rules |-> all_rules])

\* list_project_rules is called: the path check, then up to the first
\* `await ctx.info` or, with no file present, to the return
ListCall ==
    /\ l_pc = "ready"
    /\ l_all_rules' = <<>>
    /\ l_files_found' = <<>>
    /\ IF ~l_project.is_dir
       THEN /\ l_result' = Returned([status |-> "error",
                                      message |-> "Invalid project path: /project"])
            /\ l_pc' = "done"
            /\ l_idx' = 0
       ELSE /\ l_idx' = NextFile(l_project.files, 0)
            /\ IF NextFile(l_project.files, 0) = 0
               THEN /\ l_result' = ListResult(<<>>, <<>>)
                    /\ l_pc' = "done"
               ELSE /\ l_pc' = "info"
                    /\ UNCHANGED l_result
    /\ UNCHANGED <<l_project, pureVars, convertVars, validateVars, detectVars, cliVars,
                   excVars, requireVars, retryVars>>

\* ctx.info("Reading ...") returns: the file is read and scanned, then the
\* loop goes on to the next file present or the call returns
ReadingDelivered ==
    /\ l_pc = "info"
    /\ LET all_rules == l_all_rules \o FileRules(l_project.files[l_idx].content)
           files_found == Append(l_files_found, claude_files[l_idx])
           next == NextFile(l_project.files, l_idx)
       IN  /\ l_all_rules' = all_rules
           /\ l_files_found' = files_found
           /\ l_idx' = next
           /\ IF next = 0
              THEN /\ l_result' = ListResult(all_rules, files_found)
                   /\ l_pc' = "done"
              ELSE UNCHANGED <<l_result, l_pc>>
    /\ UNCHANGED <<l_project, pureVars, convertVars, validateVars, detectVars, cliVars,
                   excVars, requireVars, retryVars>>

(***************************************************************************)
(* Contracts: @require, on the function of the tests                       *)
(*     def multiply(value: int, multiplier: int = 2): return value * multiplier *)
(* Arguments are a function from parameter names to integers.  A condition *)
(* is named by what its lambda reads.                                      *)
(***************************************************************************)
\* bound = sig.bind(*args, **kwargs) without bound.apply_defaults()
BoundArguments_NoDefaults(args) == args

\* bound = sig.bind(*args, **kwargs); bound.apply_defaults()
BoundArguments(args) ==
    IF "multiplier" \in DOMAIN args THEN args ELSE args @@ ("multiplier" :> 2)

\* condition(bound.arguments): "true", "false", or "raises" for the KeyError of
\* a name that is not bound
Evaluate(condition, arguments) ==
    CASE condition = "multiplier_positive" ->
            IF "multiplier" \notin DOMAIN arguments THEN "raises"
            ELSE IF arguments["multiplier"] > 0 THEN "true" ELSE "false"
      [] condition = "value_positive" ->
            IF arguments["value"] > 0 THEN "true" ELSE "false"
      [] condition = "value_below_multiplier" ->
            IF "multiplier" \notin DOMAIN arguments THEN "raises"
            ELSE IF arguments["value"] < arguments["multiplier"] THEN "true" ELSE "false"
      [] condition = "limit_positive" -> "raises"

\* the text of the KeyError a condition raises
KeyErrorText(condition) ==
    IF condition = "limit_positive" THEN "'limit'" ELSE "'multiplier'"

\* the wrapper is called: the arguments are bound
Bind ==
    /\ q_pc = "ready"
    /\ q_bound' = BoundArguments(q_args)
    /\ q_i' = 0
    /\ q_pc' = IF q_conditions = <<>> THEN "body" ELSE "check"
    /\ UNCHANGED <<q_args, q_conditions, q_outcome, pureVars, convertVars, validateVars,
                   detectVars, cliVars, excVars, listVars, retryVars>>

\* one turn of `for i, condition in enumerate(conditions)`
CheckCondition ==
    /\ q_pc = "check"
    /\ LET verdict == Evaluate(q_conditions[q_i + 1], q_bound)
       IN  CASE verdict = "true" ->
                    /\ q_i' = q_i + 1
                    /\ q_pc' = IF q_i + 1 = Len(q_conditions) THEN "body" ELSE "check"
                    /\ UNCHANGED q_outcome
             [] verdict = "false" ->
                    /\ q_outcome' = Raised("ValidationError",
                                           "Precondition failed in multiply: Precondition "
                                               \o Str(q_i + 1))
                    /\ q_pc' = "done"
                    /\ UNCHANGED q_i
             [] verdict = "raises" ->
                    /\ q_outcome' = Raised("ValidationError",
                                           "Error evaluating precondition in multiply: "
                                               \o KeyErrorText(q_conditions[q_i + 1]))
                    /\ q_pc' = "done"
                    /\ UNCHANGED q_i
    /\ UNCHANGED <<q_args, q_conditions, q_bound, pureVars, convertVars, validateVars,
                   detectVars, cliVars, excVars, listVars, retryVars>>

\* return func(*args, **kwargs): the body runs, Python applying the default
RunBody ==
    /\ q_pc = "body"
    /\ q_outcome' = Returned(q_args["value"] *
                                 (IF "multiplier" \in DOMAIN q_args
                                  THEN q_args["multiplier"] ELSE 2))
    /\ q_pc' = "done"
    /\ UNCHANGED <<q_args, q_conditions, q_i, q_bound, pureVars, convertVars, validateVars,
                   detectVars, cliVars, excVars, listVars, retryVars>>

(***************************************************************************)
(* retry_on_error(max_attempts, exceptions, delay).  t_func gives what the *)
(* wrapped function does at its k-th invocation: it returns, raises an     *)
(* exception of `exceptions`, or raises another one.  Delays are in tenths *)
(* of a second.                                                            *)
(***************************************************************************)
\* the exception the k-th invocation raises
ErrorOf(k) == "error of invocation " \o Str(k)

\* `raise last_exception` at the end of the wrapper
RaiseLast(last_exception) ==
    IF last_exception.isNone
    THEN Raised("TypeError", "exceptions must derive from BaseException")
    ELSE Raised("RetryableError", last_exception.value)

\* the except branch: sleep when attempts remain, otherwise leave the loop
\* and raise
AfterFailure(attempt, max_attempts, last_exception) ==
    IF attempt < max_attempts - 1
    THEN [pc |-> "sleeping", outcome |-> NoOutcome]
    ELSE [pc |-> "done", outcome |-> RaiseLast(last_exception)]

\* the wrapper is called: last_exception = None and the loop is entered
RetryCall ==
    /\ t_pc = "ready"
    /\ t_last_exception' = None
    /\ t_attempt' = 0
    /\ IF t_max_attempts > 0
       THEN /\ t_pc' = "attempt"
            /\ UNCHANGED t_outcome
       ELSE /\ t_pc' = "done"
            /\ t_outcome' = RaiseLast(None)
    /\ UNCHANGED <<t_max_attempts, t_delay, t_func, t_calls, t_sleeps, pureVars, convertVars,
                   validateVars, detectVars, cliVars, excVars, listVars, requireVars>>

\* one turn of `for attempt in range(max_attempts)`: func is invoked
Attempt ==
    /\ t_pc = "attempt"
    /\ t_calls' = t_calls + 1
    /\ LET does == t_func[t_calls + 1]
       IN  CASE does = "returns" ->
                    /\ t_outcome' = Returned(t_calls + 1)
                    /\ t_pc' = "done"
                    /\ UNCHANGED <<t_last_exception, t_sleeps>>
             [] does = "raises_other" ->
                    /\ t_outcome' = Raised("OtherError", ErrorOf(t_calls + 1))
                    /\ t_pc' = "done"
                    /\ UNCHANGED <<t_last_exception, t_sleeps>>
             [] does = "raises_listed" ->
                    LET last_exception == Some(ErrorOf(t_calls + 1))
                        after == AfterFailure(t_attempt, t_max_attempts, last_exception)
                    IN  /\ t_last_exception' = last_exception
                        /\ t_pc' = after.pc
                        /\ t_outcome' = after.outcome
                        /\ t_sleeps' = IF after.pc = "sleeping"
                                       THEN Append(t_sleeps, t_delay * (t_attempt + 1))
                                       ELSE t_sleeps
    /\ UNCHANGED <<t_max_attempts, t_delay, t_func, t_attempt, pureVars, convertVars,
                   validateVars, detectVars, cliVars, excVars, listVars, requireVars>>

\* time.sleep returns: the next turn of the loop (a sleep is only started
\* when attempts remain)
Wake ==
    /\ t_pc = "sleeping"
    /\ t_attempt' = t_attempt + 1
    /\ t_pc' = "attempt"
    /\ UNCHANGED <<t_outcome, t_max_attempts, t_delay, t_func, t_calls, t_sleeps, t_last_exception,
                   pureVars, convertVars, validateVars, detectVars, cliVars, excVars,
                   listVars, requireVars>>

(***************************************************************************)
(* Rule texts of the analyser specification: up to MaxPieces pieces joined *)
(* by single blanks.  The pieces carry keywords of every event, of every   *)
(* tool group, of every row of the phrase table, every verb shape, and     *)
(* delimited substrings (empty, qualifying, non-qualifying).               *)
(***************************************************************************)
Pieces ==
    { "Run", "Format Python files", "black", "after editing", "before committing",
      "when done", "notify me", "~npm run build~", "\"ls -l\"", "\"hi\"", "~~",
      "prettier", "git status", "npm test", "npm run lint", "Check for TODO comments",
      "secret", "xyzzy plugh", "save", "search the web", "already", "prerun" }

\* get_rule_examples(): the example rules and their stated conversions, by
\* category
get_rule_examples ==
    [formatting |->
        << [rule |-> "Format Python files with black after editing",
            event |-> "PostToolUse",
            matcher |-> "Edit|MultiEdit|Write",
            command |-> "black . --quiet 2>/dev/null || true"],
           [rule |-> "Run prettier on JavaScript files after saving",
            event |-> "PostToolUse",
            matcher |-> "Edit|MultiEdit|Write",
            command |-> "prettier --write '**/*.js' 2>/dev/null || true"] >>,
     testing |->
        << [rule |-> "Run tests after modifying test files",
            event |-> "PostToolUse",
            matcher |-> "Edit|MultiEdit|Write",
            command |-> "npm test 2>/dev/null || echo 'Tests need attention'"] >>,
     git |->
        << [rule |-> "Show git status when finishing work",
            event |-> "Stop",
            matcher |-> "",
            command |-> "git status"] >>,
     validation |->
        << [rule |-> "Check for TODO comments before committing",
            event |-> "PreToolUse",
            matcher |-> "Bash",
            command |-> "grep -r 'TODO' . 2>/dev/null || echo 'No TODOs found'"] >>]

\* the rules of get_rule_examples and of the tests
ExampleRules ==
    { "Format Python files with black after editing",
      "Run prettier on JavaScript files after saving",
      "Run tests after modifying test files",
      "Show git status when finishing work",
      "Check for TODO comments before committing",
      "Run git status when done",
      "Check for TODOs before committing" }

RuleTexts ==
    {Join(" ", ps) : ps \in UNION {[1..n -> Pieces] : n \in 1..MaxPieces}} \cup ExampleRules

IdlePure ==
    /\ p_rule = ""
    /\ p_pc = "idle"
    /\ p_event = ""
    /\ p_tools = <<>>
    /\ p_command = None

InitPure ==
    /\ p_rule \in RuleTexts
    /\ p_pc = "event"
    /\ p_event = ""
    /\ p_tools = <<>>
    /\ p_command = None
    /\ IdleConvert
    /\ IdleValidate
    /\ IdleDetect
    /\ IdleCli
    /\ IdleExc
    /\ IdleList
    /\ IdleRequire
    /\ IdleRetry

\* event = _determine_event(rule)
Classify ==
    /\ p_pc = "event"
    /\ p_event' = _determine_event(p_rule)
    /\ p_pc' = "tools"
    /\ UNCHANGED <<p_rule, p_tools, p_command, convertVars, validateVars, detectVars, cliVars, excVars,
                 listVars, requireVars, retryVars>>

\* tools = _determine_tools(rule)
MatchTools ==
    /\ p_pc = "tools"
    /\ p_tools' = _determine_tools(p_rule)
    /\ p_pc' = "command"
    /\ UNCHANGED <<p_rule, p_event, p_command, convertVars, validateVars, detectVars, cliVars, excVars,
                 listVars, requireVars, retryVars>>

\* command = _extract_command(rule)
ExtractCommand ==
    /\ p_pc = "command"
    /\ p_command' = _extract_command(p_rule)
    /\ p_pc' = "done"
    /\ UNCHANGED <<p_rule, p_event, p_tools, convertVars, validateVars, detectVars, cliVars, excVars,
                 listVars, requireVars, retryVars>>

NextPure == Classify \/ MatchTools \/ ExtractCommand

SpecPure == InitPure /\ [][NextPure]_vars

(***************************************************************************)
(* Rules texts of the convert_rules specifications: up to MaxSegments      *)
(* segments joined by "," or ";".                                          *)
(***************************************************************************)
Segments ==
    { "Format Python files after editing", " xyzzy plugh",
      "Run ~npm run build~ after editing", "Run git status when done",
      "~ls~ before push", " notify me ", "" }

Separators == {",", ";"}

RECURSIVE TextsOf(_)
TextsOf(n) ==
    IF n = 1 THEN Segments
    ELSE {t \o sep \o seg : t \in TextsOf(n - 1), sep \in Separators, seg \in Segments}

RulesTexts == UNION {TextsOf(n) : n \in 1..MaxSegments}

\* one call, ready to run; the other call slot stays idle
InitConvert ==
    /\ IdlePure
    /\ IdleValidate
    /\ IdleDetect
    /\ IdleCli
    /\ IdleExc
    /\ IdleList
    /\ IdleRequire
    /\ IdleRetry
    /\ server \in {[c \in Calls |-> IF c = 1 THEN v ELSE "v1"] : v \in {"v1", "v2"}}
    /\ rules \in {[c \in Calls |-> IF c = 1 THEN t ELSE ""] : t \in RulesTexts}
    /\ merge_with_existing = [c \in Calls |-> TRUE]
    /\ pc = [c \in Calls |-> IF c = 1 THEN "ready" ELSE "idle"]
    /\ rule_list = [c \in Calls |-> <<>>]
    /\ idx = [c \in Calls |-> 0]
    /\ hooks_config = [c \in Calls |-> [hooks |-> EmptyDict]]
    /\ converted_rules = [c \in Calls |-> <<>>]
    /\ failed_rules = [c \in Calls |-> <<>>]
    /\ outcome = [c \in Calls |-> NoOutcome]

\* the observer delivers every notification
NextDelivered ==
    \E c \in Calls :
        \/ Call(c)
        \/ InfoDelivered(c)
        \/ WarningDelivered(c)
        \/ ConvertedDelivered(c)

\* the observer may fail at any notification
NextObserverFails ==
    \E c \in Calls :
        \/ Call(c)
        \/ InfoDelivered(c)
        \/ WarningDelivered(c)
        \/ ConvertedDelivered(c)
        \/ InfoRaises(c)
        \/ WarningRaises(c)
        \/ ConvertedRaises(c)

Spec == InitConvert /\ [][NextDelivered]_vars

SpecObserverFails == InitConvert /\ [][NextObserverFails]_vars

(***************************************************************************)
(* Specification of validate_hooks: one call on a file that is missing,    *)
(* unparsable, or holds one of a family of documents.                      *)
(***************************************************************************)
HooksPath == "/project/.claude/hooks.json"

\* a command of 51 characters
LongCommand == "echo 0123456789 0123456789 0123456789 0123456789 01"

EntryOk == JObject(<<Member("type", JString("command")), Member("command", JString("ls"))>>)

EntryLong ==
    JObject(<<Member("type", JString("command")), Member("command", JString(LongCommand))>>)

\* a command of exactly 50 characters
FiftyCommand == "echo 0123456789 0123456789 0123456789 0123456789 0"

EntryFifty ==
    JObject(<<Member("type", JString("command")), Member("command", JString(FiftyCommand))>>)

EntryScript ==
    JObject(<<Member("type", JString("script")), Member("command", JString("make"))>>)

EntryNoType == JObject(<<Member("command", JString("npm test"))>>)

EntryNoCommand == JObject(<<Member("type", JString("command"))>>)

EntryEmptyCommand ==
    JObject(<<Member("type", JString("command")), Member("command", JString(""))>>)

EntryNumberCommand ==
    JObject(<<Member("type", JString("command")), Member("command", JNumber(7))>>)

GroupBash ==
    JObject(<<Member("matcher", JString("Bash")), Member("hooks", JArray(<<EntryOk>>))>>)

GroupMixed ==
    JObject(<<Member("hooks", JArray(<<EntryScript, EntryNoCommand, EntryLong>>))>>)

GroupEmptyMatcher ==
    JObject(<<Member("matcher", JString("")),
              Member("hooks", JArray(<<EntryNoType, JString("ls"), EntryEmptyCommand>>))>>)

GroupNoHooks == JObject(<<Member("matcher", JString("Edit"))>>)

GroupHooksObject == JObject(<<Member("hooks", JObject(<<>>))>>)

GroupNumberCommand == JObject(<<Member("hooks", JArray(<<EntryNumberCommand, EntryOk>>))>>)

GroupScript ==
    JObject(<<Member("matcher", JString("Write")),
              Member("hooks", JArray(<<EntryScript, EntryNoType, EntryFifty>>))>>)

EventNames == {"PostToolUse", "Stop", "OnSave"}

EventValues ==
    { JArray(<<>>),
      JArray(<<GroupBash>>),
      JArray(<<GroupMixed, GroupEmptyMatcher>>),
      JArray(<<JString("oops"), GroupNoHooks, GroupHooksObject, GroupBash>>),
      JArray(<<GroupNumberCommand>>),
      JArray(<<GroupScript>>),
      JString("ls"),
      JObject(<<Member("hooks", JArray(<<EntryOk>>))>>) }

\* the hooks objects with at most n events, their names distinct
HooksOf(n) ==
    LET members == {Member(k, v) : k \in EventNames, v \in EventValues}
        all == UNION {[1..m -> members] : m \in 0..n}
    IN  {JObject(s) : s \in {t \in all : \A i, j \in 1..Len(t) :
                                            i # j => t[i].key # t[j].key}}

\* documents that violate the structure at the root
RootViolations ==
    { JArray(<<GroupBash, JString("oops")>>),
      JString("hooks"),
      JNull,
      JObject(<<>>),
      JObject(<<Member("PostToolUse", JArray(<<GroupBash, GroupNoHooks>>))>>),
      JObject(<<Member("hooks", JArray(<<GroupMixed, JString("oops")>>))>>),
      JObject(<<Member("hooks", JString("PostToolUse"))>>),
      JObject(<<Member("hooks", JNull)>>) }

Documents ==
    RootViolations
        \cup {JObject(<<Member("hooks", h)>>) : h \in HooksOf(MaxEvents)}
        \cup {JObject(<<Member("version", JNumber(1)), Member("hooks", h)>>) :
                 h \in HooksOf(1)}

Files ==
    {[kind |-> "missing", path |-> HooksPath]}
        \cup {[kind |-> "invalid", path |-> HooksPath,
               error |-> "Expecting value: line 1 column 1 (char 0)"]}
        \cup {[kind |-> "json", path |-> HooksPath, doc |-> d] : d \in Documents}

InitValidate ==
    /\ IdlePure
    /\ IdleConvert
    /\ IdleDetect
    /\ IdleCli
    /\ IdleExc
    /\ IdleList
    /\ IdleRequire
    /\ IdleRetry
    /\ v_file \in Files
    /\ v_pc = "ready"
    /\ v_config = Unbound
    /\ v_event = 0
    /\ v_st = NoFindings
    /\ v_result = NoOutcome

NextValidate ==
    \/ ValidateCall
    \/ ParsedDelivered
    \/ EventDelivered
    \/ ProgressDelivered

SpecValidate == InitValidate /\ [][NextValidate]_vars

(***************************************************************************)
(* Specification of detect_conflicts: one call on an existing file and a   *)
(* new hooks document, both HooksConfig documents.                         *)
(***************************************************************************)
HookEntry(command) ==
    JObject(<<Member("type", JString("command")), Member("command", JString(command))>>)

GroupEditBlack ==
    JObject(<<Member("matcher", JString("Edit")), Member("hooks", JArray(<<HookEntry("black .")>>))>>)

GroupEditAutopep ==
    JObject(<<Member("matcher", JString("Edit")),
              Member("hooks", JArray(<<HookEntry("autopep8 ."), HookEntry("ruff check")>>))>>)

GroupWrite ==
    JObject(<<Member("matcher", JString("Write")),
              Member("hooks", JArray(<<HookEntry("prettier --write ."), HookEntry("black .")>>))>>)

GroupAllTools == JObject(<<Member("hooks", JArray(<<HookEntry("git status")>>))>>)

GroupBlankMatcher ==
    JObject(<<Member("matcher", JString("")), Member("hooks", JArray(<<HookEntry("ls")>>))>>)

HooksDocument(events) == JObject(<<Member("hooks", JObject(events))>>)

ExistingDocuments ==
    { HooksDocument(<<Member("PostToolUse", JArray(<<GroupEditBlack>>))>>),
      HooksDocument(<<Member("PostToolUse", JArray(<<GroupEditBlack, GroupEditAutopep>>))>>),
      HooksDocument(<<Member("PostToolUse", JArray(<<GroupWrite>>)),
                      Member("Stop", JArray(<<GroupEditBlack>>))>>),
      HooksDocument(<<Member("Stop", JArray(<<GroupAllTools, GroupBlankMatcher>>))>>),
      HooksDocument(<<Member("PreToolUse", JArray(<<GroupBlankMatcher, GroupEditAutopep, GroupWrite>>))>>),
      HooksDocument(<<>>),
      JObject(<<>>) }

NewEventValues ==
    { JArray(<<GroupEditBlack>>),
      JArray(<<GroupEditAutopep, GroupWrite>>),
      JArray(<<GroupAllTools>>),
      JArray(<<GroupBlankMatcher, GroupEditBlack>>),
      JArray(<<GroupEditBlack, GroupEditBlack>>) }

NewEventNames == {"PreToolUse", "PostToolUse", "Stop"}

\* the new documents with at most n events, their names distinct
NewDocuments(n) ==
    LET members == {Member(k, v) : k \in NewEventNames, v \in NewEventValues}
        all == UNION {[1..m -> members] : m \in 0..n}
    IN  {HooksDocument(s) : s \in {t \in all : \A i, j \in 1..Len(t) :
                                                  i # j => t[i].key # t[j].key}}
        \cup {JObject(<<>>)}

ExistingFiles ==
    {[kind |-> "missing", path |-> HooksPath]}
        \cup {[kind |-> "invalid", path |-> HooksPath,
               error |-> "Expecting value: line 1 column 1 (char 0)"]}
        \cup {[kind |-> "json", path |-> HooksPath, doc |-> d] : d \in ExistingDocuments}

NewJson ==
    {[kind |-> "invalid", error |-> "Expecting property name enclosed in double quotes: line 1 column 2 (char 1)"]}
        \cup {[kind |-> "json", doc |-> d] : d \in NewDocuments(MaxEvents)}

InitDetect ==
    /\ IdlePure
    /\ IdleConvert
    /\ IdleValidate
    /\ IdleCli
    /\ IdleExc
    /\ IdleList
    /\ IdleRequire
    /\ IdleRetry
    /\ d_existing \in ExistingFiles
    /\ d_new \in NewJson
    /\ d_pc = "ready"
    /\ d_matchers = EmptyDict
    /\ d_event = 0
    /\ d_group = 0
    /\ d_conflicts = <<>>
    /\ d_result = NoOutcome

NextDetect ==
    \/ DetectCall
    \/ ConflictWarningDelivered

SpecDetect == InitDetect /\ [][NextDetect]_vars

(***************************************************************************)
(* Specification of detect_conflicts on documents that validate_hooks      *)
(* accepts but that are no HooksConfig: a group may have an empty hooks    *)
(* array.                                                                  *)
(***************************************************************************)
GroupEmptyHooks ==
    JObject(<<Member("matcher", JString("Edit")), Member("hooks", JArray(<<>>))>>)

AcceptedEventValues ==
    { JArray(<<GroupEmptyHooks>>),
      JArray(<<GroupEditBlack, GroupEmptyHooks>>),
      JArray(<<JObject(<<Member("hooks", JArray(<<>>))>>)>>) }

AcceptedDocuments ==
    {HooksDocument(<<Member(k, v)>>) : k \in {"PostToolUse", "Stop"}, v \in AcceptedEventValues}

InitDetectAccepted ==
    /\ IdlePure
    /\ IdleConvert
    /\ IdleValidate
    /\ IdleCli
    /\ IdleExc
    /\ IdleList
    /\ IdleRequire
    /\ IdleRetry
    /\ d_existing \in {[kind |-> "json", path |-> HooksPath, doc |-> d] :
                          d \in AcceptedDocuments \cup ExistingDocuments}
    /\ d_new \in {[kind |-> "json", doc |-> d] :
                     d \in AcceptedDocuments \cup NewDocuments(1)}
    /\ d_pc = "ready"
    /\ d_matchers = EmptyDict
    /\ d_event = 0
    /\ d_group = 0
    /\ d_conflicts = <<>>
    /\ d_result = NoOutcome

SpecDetectAccepted == InitDetectAccepted /\ [][NextDetect]_vars

(***************************************************************************)
(* Specification of the command-line validator: one run on one file.       *)
(***************************************************************************)
InitCli ==
    /\ IdlePure
    /\ IdleConvert
    /\ IdleValidate
    /\ IdleDetect
    /\ IdleExc
    /\ IdleList
    /\ IdleRequire
    /\ IdleRetry
    /\ c_file \in Files
    /\ c_pc = "start"
    /\ c_valid = "unset"
    /\ c_exit = -1

NextCli ==
    \/ CliValidate
    \/ CliDisplay
    \/ CliFail

SpecCli == InitCli /\ [][NextCli]_vars

(***************************************************************************)
(* Specification of two concurrent convert_rules calls: both are called    *)
(* and their steps interleave freely at the awaits.                        *)
(***************************************************************************)
ConcurrentTexts ==
    { "Format Python files after editing, xyzzy plugh",
      "Run ~npm run build~ after editing;Run git status when done",
      "~ls~ before push,Format Python files after editing",
      "Run git status when done",
      " xyzzy plugh",
      "," }

InitConcurrent ==
    /\ IdlePure
    /\ IdleValidate
    /\ IdleDetect
    /\ IdleCli
    /\ IdleExc
    /\ IdleList
    /\ IdleRequire
    /\ IdleRetry
    /\ server \in [Calls -> {"v1", "v2"}]
    /\ rules \in [Calls -> ConcurrentTexts]
    /\ merge_with_existing = [c \in Calls |-> TRUE]
    /\ pc = [c \in Calls |-> "ready"]
    /\ rule_list = [c \in Calls |-> <<>>]
    /\ idx = [c \in Calls |-> 0]
    /\ hooks_config = [c \in Calls |-> [hooks |-> EmptyDict]]
    /\ converted_rules = [c \in Calls |-> <<>>]
    /\ failed_rules = [c \in Calls |-> <<>>]
    /\ outcome = [c \in Calls |-> NoOutcome]

SpecConcurrent == InitConcurrent /\ [][NextDelivered]_vars

(***************************************************************************)
(* Specification of convert_rules called twice by the same server on the   *)
(* same rules text, once with merge_with_existing true and, when that call *)
(* has ended, once with merge_with_existing false.                         *)
(***************************************************************************)
\* the client calls convert_rules again once the first call has ended
CallAgain ==
    /\ pc[1] = "done"
    /\ pc[2] = "idle"
    /\ pc' = [pc EXCEPT ![2] = "ready"]
    /\ UNCHANGED <<server, rules, merge_with_existing, rule_list, idx, hooks_config,
                   converted_rules, failed_rules, outcome, pureVars, validateVars,
                   detectVars, cliVars, excVars, listVars, requireVars, retryVars>>

InitMergeFlag ==
    /\ IdlePure
    /\ IdleValidate
    /\ IdleDetect
    /\ IdleCli
    /\ IdleExc
    /\ IdleList
    /\ IdleRequire
    /\ IdleRetry
    /\ server \in {[c \in Calls |-> v] : v \in {"v1", "v2"}}
    /\ rules \in {[c \in Calls |-> t] : t \in RulesTexts}
    /\ merge_with_existing = [c \in Calls |-> c = 1]
    /\ pc = [c \in Calls |-> IF c = 1 THEN "ready" ELSE "idle"]
    /\ rule_list = [c \in Calls |-> <<>>]
    /\ idx = [c \in Calls |-> 0]
    /\ hooks_config = [c \in Calls |-> [hooks |-> EmptyDict]]
    /\ converted_rules = [c \in Calls |-> <<>>]
    /\ failed_rules = [c \in Calls |-> <<>>]
    /\ outcome = [c \in Calls |-> NoOutcome]

NextMergeFlag == NextDelivered \/ CallAgain

SpecMergeFlag == InitMergeFlag /\ [][NextMergeFlag]_vars

(***************************************************************************)
(* Specification of the exceptions: one exception is built from its        *)
(* arguments and then turned into a string.                                *)
(***************************************************************************)
DetailsArgs ==
    { JNull,
      JObject(<<>>),
      JObject(<<Member("line", JNumber(42))>>),
      JObject(<<Member("errno", JNumber(13)), Member("hint", JString("check permissions"))>>) }

Reasons == {"Permission denied", "Invalid JSON input"}

FileOperationArgs ==
    { [class |-> "FileOperationError", operation |-> o, path |-> f, reason |-> r, details |-> d] :
        o \in {"read", "write"}, f \in {"/path/to/file", "hooks.json"},
        r \in Reasons, d \in DetailsArgs }

ToolExecutionArgs ==
    { [class |-> "ToolExecutionError", tool_name |-> t, reason |-> r, details |-> d] :
        t \in {"convert_rules", "validate_hooks"}, r \in Reasons, d \in DetailsArgs }

InitExc ==
    /\ IdlePure
    /\ IdleConvert
    /\ IdleValidate
    /\ IdleDetect
    /\ IdleCli
    /\ IdleList
    /\ IdleRequire
    /\ IdleRetry
    /\ e_args \in FileOperationArgs \cup ToolExecutionArgs
    /\ e_pc = "ready"
    /\ e_exc = [class |-> "none"]
    /\ e_str = ""

NextExc == Construct \/ Format

SpecExc == InitExc /\ [][NextExc]_vars

(***************************************************************************)
(* Specification of list_project_rules: the project's CLAUDE.md holds up   *)
(* to MaxLines lines; the two other files are absent or hold a fixed text. *)
(***************************************************************************)
Lines ==
    { "# Project Rules", "## Other Section", "- Format Python files", "  * Run tests ",
      "-", "This is not a rule.", "--dry-run is off" }

RECURSIVE ContentsOf(_)
ContentsOf(n) ==
    IF n = 0 THEN {}
    ELSE IF n = 1 THEN Lines
    ELSE ContentsOf(n - 1) \cup
         {c \o "\n" \o l : c \in ContentsOf(n - 1), l \in Lines}

Absent == [exists |-> FALSE, content |-> ""]

Present(content) == [exists |-> TRUE, content |-> content]

LocalFiles == {Absent, Present("## RULES (local)\n* Check for TODOs\n#rules\n\n - ")}

HomeFiles == {Absent, Present("- outside\n# My rules\n- Show git status when done")}

InitList ==
    /\ IdlePure
    /\ IdleConvert
    /\ IdleValidate
    /\ IdleDetect
    /\ IdleCli
    /\ IdleExc
    /\ IdleRequire
    /\ IdleRetry
    /\ l_project \in
           {[is_dir |-> FALSE, files |-> <<Absent, Absent, Absent>>]} \cup
           {[is_dir |-> TRUE, files |-> <<a, b, c>>] :
               a \in {Absent} \cup {Present(x) : x \in ContentsOf(MaxLines)},
               b \in LocalFiles, c \in HomeFiles}
    /\ l_pc = "ready"
    /\ l_idx = 0
    /\ l_all_rules = <<>>
    /\ l_files_found = <<>>
    /\ l_result = NoOutcome

NextList == ListCall \/ ReadingDelivered

SpecList == InitList /\ [][NextList]_vars

(***************************************************************************)
(* Specification of @require: multiply is decorated with up to             *)
(* MaxConditions conditions and called with or without its multiplier.     *)
(***************************************************************************)
Conditions == {"multiplier_positive", "value_positive", "value_below_multiplier",
               "limit_positive"}

CallArguments ==
    {("value" :> v) : v \in {-1, 1, 5}} \cup
    {("value" :> v) @@ ("multiplier" :> k) : v \in {-1, 1, 5}, k \in {-1, 0, 3}}

InitRequire ==
    /\ IdlePure
    /\ IdleConvert
    /\ IdleValidate
    /\ IdleDetect
    /\ IdleCli
    /\ IdleExc
    /\ IdleList
    /\ IdleRetry
    /\ q_args \in CallArguments
    /\ q_conditions \in UNION {[1..n -> Conditions] : n \in 0..MaxConditions}
    /\ q_pc = "ready"
    /\ q_i = 0
    /\ q_bound = <<>>
    /\ q_outcome = NoOutcome

NextRequire == Bind \/ CheckCondition \/ RunBody

SpecRequire == InitRequire /\ [][NextRequire]_vars

(***************************************************************************)
(* Specification of retry_on_error: max_attempts from 0 to MaxAttempts and *)
(* every behaviour of the wrapped function over that many invocations.     *)
(***************************************************************************)
Behaviours == [1..MaxAttempts -> {"returns", "raises_listed", "raises_other"}]

InitRetry ==
    /\ IdlePure
    /\ IdleConvert
    /\ IdleValidate
    /\ IdleDetect
    /\ IdleCli
    /\ IdleExc
    /\ IdleList
    /\ IdleRequire
    /\ t_max_attempts \in 0..MaxAttempts
    /\ t_delay \in {1, 5}
    /\ t_func \in Behaviours
    /\ t_pc = "ready"
    /\ t_attempt = 0
    /\ t_calls = 0
    /\ t_sleeps = <<>>
    /\ t_last_exception = None
    /\ t_outcome = NoOutcome

NextRetry == RetryCall \/ Attempt \/ Wake

SpecRetry == InitRetry /\ [][NextRetry]_vars

(***************************************************************************)
(* Specification of the round trip: one convert_rules call, whose observer *)
(* may fail, and then validate_hooks on what it returned.                  *)
(***************************************************************************)
NextRoundTrip ==
    \/ NextObserverFails
    \/ SaveConfig
    \/ NextValidate

SpecRoundTrip == InitConvert /\ [][NextRoundTrip]_vars

(***************************************************************************)
(* Properties of the analysers (checked under SpecPure).                   *)
(***************************************************************************)
\* some keyword of the set occurs in the text
HasAny(text, words) == \E k \in words : Contains(text, k)

\* C1: classify returns exactly one of the four events: the first event, in
\* the order PreToolUse, PostToolUse, Stop, Notification, one of whose
\* keywords occurs in the lower-cased rule (so "before" together with
\* "after" gives PreToolUse); with no keyword at all, PostToolUse when the
\* rule contains edit, modify, save or write, and Stop otherwise.
C1_ClassifyFirstEventWins ==
    p_pc \in {"tools", "command", "done"} =>
        LET r == Lower(p_rule)
            pre == HasAny(r, {"before", "check", "validate", "prevent", "scan", "verify"})
            post == HasAny(r, {"after", "following", "once done", "when finished"})
            stop == HasAny(r, {"finish", "complete", "end task", "done", "wrap up"})
            notif == HasAny(r, {"notify", "alert", "inform", "message"})
            edits == HasAny(r, {"edit", "modify", "save", "write"})
        IN  /\ p_event \in {"PreToolUse", "PostToolUse", "Stop", "Notification"}
            /\ p_event = IF pre THEN "PreToolUse"
                         ELSE IF post THEN "PostToolUse"
                         ELSE IF stop THEN "Stop"
                         ELSE IF notif THEN "Notification"
                         ELSE IF edits THEN "PostToolUse"
                         ELSE "Stop"
            /\ (Contains(r, "before") /\ Contains(r, "after") => p_event = "PreToolUse")

\* a rule with both "before" and "after" has been classified PreToolUse
C1_Witness ==
    /\ p_pc = "tools"
    /\ Contains(Lower(p_rule), "before")
    /\ Contains(Lower(p_rule), "after")
    /\ p_event = "PreToolUse"

\* the pairs <<i, j>> of positions of d in s that delimit a non-empty
\* stretch free of d
DelimitedPairs(s, d) ==
    {ij \in (1..Len(s)) \X (1..Len(s)) :
        /\ ij[1] + 1 < ij[2]
        /\ CharAt(s, ij[1]) = d
        /\ CharAt(s, ij[2]) = d
        /\ \A k \in (ij[1] + 1)..(ij[2] - 1) : CharAt(s, k) # d}

\* the content of the leftmost such pair
FirstDelimited(s, d) ==
    LET ij == CHOOSE x \in DelimitedPairs(s, d) : \A y \in DelimitedPairs(s, d) : x[1] <= y[1]
    IN  SubSeq(s, ij[1] + 1, ij[2] - 1)

\* the phrase table, as the rows that apply to a lower-cased rule, in order
PhraseRows(r) ==
    << [applies |-> Contains(r, "black") /\ Contains(r, "python"),
        command |-> "black . --quiet 2>/dev/null || true"],
       [applies |-> Contains(r, "prettier"),
        command |-> "prettier --write . 2>/dev/null || true"],
       [applies |-> Contains(r, "git status"),
        command |-> "git status"],
       [applies |-> Contains(r, "npm test"),
        command |-> "npm test 2>/dev/null || echo 'Tests need attention'"],
       [applies |-> Contains(r, "npm run lint"),
        command |-> "npm run lint 2>/dev/null || true"],
       [applies |-> Contains(r, "todo") /\ Contains(r, "comment"),
        command |-> "grep -r 'TODO' . 2>/dev/null || echo 'No TODOs found'"],
       [applies |-> Contains(r, "secret") \/ Contains(r, "credential"),
        command |-> "git secrets --scan 2>/dev/null || echo 'No secrets found'"] >>

ToolOrder ==
    <<"Edit", "MultiEdit", "Write", "Bash", "Grep", "Glob", "Read",
      "WebFetch", "WebSearch", "TodoRead", "TodoWrite">>

\* C3: matchTools returns the tools of exactly the keyword groups triggered
\* by the lower-cased rule, in group-declaration order, each tool at most
\* once, and nothing when no group is triggered; the rule "Format Python
\* files with black after editing" gives Edit, MultiEdit, Write.
C3_MatchToolsGroupsInOrder ==
    p_pc \in {"command", "done"} =>
        LET r == Lower(p_rule)
            got == Range(p_tools)
            Pos(t) == CHOOSE i \in 1..Len(ToolOrder) : ToolOrder[i] = t
            Group(ts, triggered) == \A t \in ts : t \in got <=> triggered
        IN  /\ got \subseteq Range(ToolOrder)
            /\ Group({"Edit", "MultiEdit", "Write"},
                     HasAny(r, {"edit", "modify", "save", "file", "code"}))
            /\ Group({"Bash"}, HasAny(r, {"command", "bash", "shell", "execute", "run"}))
            /\ Group({"Grep", "Glob"}, HasAny(r, {"search", "find", "grep"}))
            /\ Group({"Read"}, Contains(r, "read"))
            /\ Group({"WebFetch", "WebSearch"}, HasAny(r, {"web", "fetch", "download"}))
            /\ Group({"TodoRead", "TodoWrite"}, Contains(r, "todo"))
            /\ \A i, j \in 1..Len(p_tools) : i < j => Pos(p_tools[i]) < Pos(p_tools[j])
            /\ (p_rule = "Format Python files with black after editing"
                    => p_tools = <<"Edit", "MultiEdit", "Write">>)

\* a rule that triggers the file group and the command group
C3_Witness ==
    /\ p_pc = "command"
    /\ p_rule = "Run after editing"
    /\ p_tools = <<"Edit", "MultiEdit", "Write", "Bash">>

(***************************************************************************)
(* Properties of convert_rules.                                            *)
(***************************************************************************)
\* a command can be extracted from the rule
HasCommand(rule) == Truthy(_extract_command(rule))

\* the call returned a result that carries a hooks configuration
ReturnedConfig(c) ==
    /\ pc[c] = "done"
    /\ outcome[c].kind = "return"
    /\ "hooks_config" \in DOMAIN outcome[c].value

\* C4: the status returned by convert_rules is "success" exactly when every
\* candidate rule converted, "partial" exactly when at least one converted
\* and at least one failed, and "error" exactly when none converted.
C4_StatusReflectsConversions ==
    \A c \in Calls :
        pc[c] = "done" /\ outcome[c].kind = "return" /\ rule_list[c] # <<>> =>
            LET n == Len(rule_list[c])
                k == Len(SelectSeq(rule_list[c], HasCommand))
                status == outcome[c].value.status
            IN  /\ status = "success" <=> k = n
                /\ status = "partial" <=> 0 < k /\ k < n
                /\ status = "error" <=> k = 0

\* C5: a hook group carries a matcher exactly when its rule's event is not
\* Stop and its matched tool list is non-empty, and the matcher is then the
\* matched tools joined with "|"; otherwise it has no matcher field.
C5_MatcherIffToolsAndNotStop ==
    \A c \in Calls : \A e \in DOMAIN hooks_config[c].hooks :
        LET from == SelectSeq(converted_rules[c], LAMBDA r : r.event = e)
            groups == hooks_config[c].hooks[e]
        IN  /\ Len(groups) = Len(from)
            /\ \A i \in 1..Len(groups) :
                  LET event == _determine_event(from[i].rule)
                      tools == _determine_tools(from[i].rule)
                  IN  /\ "matcher" \in DOMAIN groups[i] <=> event # "Stop" /\ tools # <<>>
                      /\ "matcher" \in DOMAIN groups[i] => groups[i].matcher = Join("|", tools)

\* a returned configuration holds a group with a matcher and, under Stop, a
\* group without one although tools matched its rule
C5_Witness ==
    /\ ReturnedConfig(1)
    /\ \E e \in DOMAIN hooks_config[1].hooks :
          "matcher" \in DOMAIN hooks_config[1].hooks[e][1]
    /\ "Stop" \in DOMAIN hooks_config[1].hooks
    /\ "matcher" \notin DOMAIN hooks_config[1].hooks["Stop"][1]
    /\ \E i \in 1..Len(converted_rules[1]) :
          converted_rules[1][i].event = "Stop" /\ converted_rules[1][i].tools # <<>>

\* the batch of c with the rules that yield no command removed, run alone
ReducedRun(c) ==
    RunDelivered(server[c], Join(",", SelectSeq(rule_list[c], HasCommand)))

\* the failure records v2 keeps for the rules that yield no command
ExpectedFailures(c) ==
    LET bad == SelectSeq(rule_list[c], LAMBDA r : ~HasCommand(r))
    IN  [i \in 1..Len(bad) |->
            [rule |-> bad[i],
             error |-> "Failed to parse rule '" \o bad[i]
                           \o "': Could not determine command from rule"]]

C7_InputOrderPreserved ==
    \A c \in Calls :
        LET conv == converted_rules[c]
            list == rule_list[c]
        IN  /\ \E f \in [1..Len(conv) -> 1..Len(list)] :
                  /\ \A i, j \in 1..Len(conv) : i < j => f[i] < f[j]
                  /\ \A i \in 1..Len(conv) : list[f[i]] = conv[i].rule
            /\ \A e \in DOMAIN hooks_config[c].hooks :
                  LET from == SelectSeq(conv, LAMBDA r : r.event = e)
                      groups == hooks_config[c].hooks[e]
                  IN  [i \in 1..Len(groups) |-> groups[i].hooks[1].command]
                          = [i \in 1..Len(from) |-> from[i].command]
            /\ ReturnedConfig(c) =>
                  /\ outcome[c].value.converted_rules = conv
                  /\ outcome[c].value.hooks_config = hooks_config[c]

\* two rules of one event with different commands have been converted
C7_Witness ==
    /\ ReturnedConfig(1)
    /\ \E e \in DOMAIN hooks_config[1].hooks :
          /\ Len(hooks_config[1].hooks[e]) = 2
          /\ hooks_config[1].hooks[e][1].hooks[1].command
                 # hooks_config[1].hooks[e][2].hooks[1].command

\* the text holds nothing but separators and whitespace
OnlySeparators(text) ==
    \A i \in 1..Len(text) : CharAt(text, i) \in {",", ";"} \cup Whitespace

\* C8: when the split leaves no non-empty trimmed candidate rule,
\* convert_rules fails the whole call with a validation error and returns no
\* hooks configuration.
C8_NoCandidatesFailsCall ==
    \A c \in Calls :
        pc[c] = "done" /\ OnlySeparators(rules[c]) =>
            \/ outcome[c].kind = "raise" /\ outcome[c].error = "ValidationError"
            \/ /\ outcome[c].kind = "return"
               /\ outcome[c].value.status = "error"
               /\ "hooks_config" \notin DOMAIN outcome[c].value

\* a text of separators only has been rejected
C8_Witness ==
    /\ pc[1] = "done"
    /\ rules[1] # ""
    /\ Strip(rules[1]) # ""
    /\ OnlySeparators(rules[1])
    /\ outcome[1].kind = "raise"

\* C9: a notification that fails to be delivered never fails the
\* conversion: the call still returns, with the status, hooks_config,
\* converted rules and failed rules of the run in which every notification
\* is delivered.
C9_NotificationFailureHarmless ==
    \A c \in Calls :
        pc[c] = "done" => outcome[c] = RunDelivered(server[c], rules[c])

(***************************************************************************)
(* Properties of validate_hooks.                                           *)
(***************************************************************************)
\* the document breaks the structure at the root
RootViolation(doc) ==
    \/ doc.type # "object"
    \/ \A i \in 1..Len(doc.items) : doc.items[i].key # "hooks"
    \/ \E i \in 1..Len(doc.items) :
          doc.items[i].key = "hooks" /\ doc.items[i].value.type # "object"

\* C10: if the document root is not an object, or has no key hooks, or its
\* hooks value is not an object, validate aborts immediately with status
\* "error" and exactly one issue, without examining any event, group or
\* hook entry.
C10_RootViolationAborts ==
    v_file.kind = "json" /\ RootViolation(v_file.doc) =>
        /\ v_pc \in {"ready", "parsed", "done"}
        /\ v_event = 0
        /\ v_st.warnings = <<>> /\ v_st.hook_count = 0 /\ v_st.hooks_summary = <<>>
        /\ v_pc = "done" =>
              /\ v_result.kind = "return"
              /\ v_result.value.status = "error"
              /\ Len(v_result.value.issues) = 1
              /\ v_result.value.issues = v_st.issues
              /\ DOMAIN v_result.value = {"status", "message", "issues"}

\* a document whose hooks value is an array holding a malformed group has
\* been rejected at the root
C10_Witness ==
    /\ v_pc = "done"
    /\ v_file.kind = "json"
    /\ v_file.doc.type = "object"
    /\ Has(v_file.doc, "hooks")
    /\ Get(v_file.doc, "hooks", JNull).type = "array"
    /\ v_result.kind = "return"
    /\ v_result.value.issues = <<"'hooks' must be an object">>

\* the events of a document that passed the root checks
EventsOf(doc) == Get(doc, "hooks", JNull).items

\* a parsed value that is none of null, false, 0, "", [] and {}
NonEmpty(v) ==
    /\ v # JNull /\ v # JBool(FALSE) /\ v # JNumber(0)
    /\ v # JString("") /\ v # JArray(<<>>) /\ v # JObject(<<>>)

\* an object with a non-empty command
ValidEntry(hook) ==
    /\ hook.type = "object"
    /\ \E m \in 1..Len(hook.items) :
          hook.items[m].key = "command" /\ NonEmpty(hook.items[m].value)

\* a group that the validator can descend into
WellFormedGroup(g) ==
    /\ g.type = "object"
    /\ \E m \in 1..Len(g.items) : g.items[m].key = "hooks" /\ g.items[m].value.type = "array"

\* no node of the document is malformed
IssueFree(doc) ==
    \A k \in 1..Len(EventsOf(doc)) :
        LET v == EventsOf(doc)[k].value
        IN  /\ v.type = "array"
            /\ \A i \in 1..Len(v.elems) :
                  /\ WellFormedGroup(v.elems[i])
                  /\ \A j \in 1..Len(Get(v.elems[i], "hooks", JNull).elems) :
                        ValidEntry(Get(v.elems[i], "hooks", JNull).elems[j])

\* the call returned the result of a full traversal
FullTraversal ==
    /\ v_pc = "done"
    /\ v_file.kind = "json"
    /\ v_result.kind = "return"
    /\ "hooks_summary" \in DOMAIN v_result.value

\* C11: the status returned by validate is "success" exactly when the issues
\* list is empty after the full traversal and "error" otherwise, whatever
\* the number of warnings; a document whose only findings are warnings is
\* "success", and an event whose value is the empty array produces no issue.
C11_StatusIffNoIssues ==
    FullTraversal =>
        /\ v_result.value.status \in {"success", "error"}
        /\ v_result.value.status = "success" <=> v_result.value.issues = <<>>
        /\ v_result.value.issues = <<>> <=> IssueFree(v_file.doc)

\* a document with an unknown event, a type warning and an empty array has
\* been found valid
C11_Witness ==
    /\ FullTraversal
    /\ v_result.value.status = "success"
    /\ \E w \in Range(v_result.value.warnings) : Contains(w, "Unknown event type")
    /\ \E w \in Range(v_result.value.warnings) : Contains(w, "has type: script")
    /\ \E k \in 1..Len(EventsOf(v_file.doc)) : EventsOf(v_file.doc)[k].value = JArray(<<>>)

\* the issues owed by the malformed nodes of a document, each named by its
\* position (counted from 0)
ExpectedIssues(doc) ==
    LET ev == EventsOf(doc)
        groups(k) == ev[k].value.elems
        entries(k, i) == Get(groups(k)[i], "hooks", JNull).elems
        at(k, i) == ev[k].key \o "[" \o Str(i - 1) \o "]"
    IN  {"Value of " \o ev[k].key \o " must be an array" :
             k \in {n \in 1..Len(ev) : ev[n].value.type # "array"}}
        \cup UNION {
             {at(k, i) \o " must be an object" :
                  i \in {n \in 1..Len(groups(k)) : groups(k)[n].type # "object"}}
             \cup {at(k, i) \o " missing 'hooks' array" :
                  i \in {n \in 1..Len(groups(k)) :
                            groups(k)[n].type = "object" /\ ~Has(groups(k)[n], "hooks")}}
             \cup {at(k, i) \o ".hooks must be an array" :
                  i \in {n \in 1..Len(groups(k)) :
                            /\ groups(k)[n].type = "object"
                            /\ Has(groups(k)[n], "hooks")
                            /\ ~WellFormedGroup(groups(k)[n])}}
             \cup UNION {
                  {at(k, i) \o ".hooks[" \o Str(j - 1) \o "] must be an object" :
                       j \in {n \in 1..Len(entries(k, i)) :
                                 entries(k, i)[n].type # "object"}}
                  \cup {at(k, i) \o ".hooks[" \o Str(j - 1) \o "] missing command" :
                       j \in {n \in 1..Len(entries(k, i)) :
                                 /\ entries(k, i)[n].type = "object"
                                 /\ ~ValidEntry(entries(k, i)[n])}} :
                  i \in {n \in 1..Len(groups(k)) : WellFormedGroup(groups(k)[n])}} :
             k \in {n \in 1..Len(ev) : ev[n].value.type = "array"}}

\* C12: once the root checks pass, validate never stops early: in a single
\* call every event whose value is not an array, every group that is not an
\* object or lacks a hooks array, and every hook entry that is not an object
\* or lacks a non-empty command contributes its own issue.
C12_EveryMalformedNodeReported ==
    v_pc = "done" /\ v_file.kind = "json" /\ ~RootViolation(v_file.doc) =>
        /\ v_result.kind = "return"
        /\ Range(v_result.value.issues) = ExpectedIssues(v_file.doc)
        /\ Len(v_result.value.issues) = Cardinality(ExpectedIssues(v_file.doc))

\* the hook entries the validator reaches, in document order, each with its
\* position
RECURSIVE Flatten(_)
Flatten(seqs) == IF seqs = <<>> THEN <<>> ELSE Head(seqs) \o Flatten(Tail(seqs))

ReachedEntries(doc) ==
    LET ev == EventsOf(doc)
        ofGroup(k, i) ==
            IF WellFormedGroup(ev[k].value.elems[i])
            THEN LET g == ev[k].value.elems[i]
                     hs == Get(g, "hooks", JNull).elems
                 IN  [j \in 1..Len(hs) |->
                         [at |-> ev[k].key \o "[" \o Str(i - 1) \o "].hooks["
                                     \o Str(j - 1) \o "]",
                          event |-> ev[k].key, group |-> g, hook |-> hs[j]]]
            ELSE <<>>
        ofEvent(k) ==
            IF ev[k].value.type = "array"
            THEN Flatten([i \in 1..Len(ev[k].value.elems) |-> ofGroup(k, i)])
            ELSE <<>>
    IN  Flatten([k \in 1..Len(ev) |-> ofEvent(k)])

\* the warning about the type of the entry at a position is in the result
TypeWarned(at) ==
    \E w \in Range(v_result.value.warnings) :
        Len(w) > Len(at) /\ SubSeq(w, 1, Len(at) + 10) = at \o " has type"

\* C13: validate records a type warning for a hook entry when the entry has
\* a type that is present but not exactly "command", and records no type
\* warning for an entry whose type is "command" or absent; a type warning
\* never adds an issue and never prevents the entry from being counted as a
\* valid hook.
C13_TypeWarningOnlyForOtherType ==
    FullTraversal =>
        LET reached == ReachedEntries(v_file.doc)
            objects == SelectSeq(reached, LAMBDA e : e.hook.type = "object")
        IN  /\ \A n \in 1..Len(objects) :
                  TypeWarned(objects[n].at) <=>
                      /\ Has(objects[n].hook, "type")
                      /\ Get(objects[n].hook, "type", JNull) # JString("command")
            /\ v_result.value.total_hooks
                   = Len(SelectSeq(reached, LAMBDA e : ValidEntry(e.hook)))
            /\ Len(v_result.value.issues) = Cardinality(ExpectedIssues(v_file.doc))

\* the command of a hook entry
CommandOf(hook) == Get(hook, "command", JNull)

\* the summary shows the command: unchanged up to 50 characters, else its
\* first 50 characters and an ellipsis
Shows(shown, command) ==
    IF command.type = "string" /\ Len(command.str) > 50
    THEN /\ shown.type = "string"
         /\ Len(shown.str) = 53
         /\ SubSeq(shown.str, 1, 50) = SubSeq(command.str, 1, 50)
         /\ SubSeq(shown.str, 51, 53) = "..."
    ELSE shown = command

\* C14: in every full-traversal result of validate, total_hooks equals the
\* number of hook entries that are objects with a non-empty command and
\* equals the length of hooks_summary; each summary entry carries the
\* entry's command unchanged when it has at most 50 characters and its first
\* 50 characters followed by an ellipsis when it is longer.
C14_TotalHooksAndSummary ==
    FullTraversal =>
        LET valid == SelectSeq(ReachedEntries(v_file.doc), LAMBDA e : ValidEntry(e.hook))
            summary == v_result.value.hooks_summary
        IN  /\ v_result.value.total_hooks = Len(valid)
            /\ Len(summary) = Len(valid)
            /\ \A n \in 1..Len(summary) :
                  /\ summary[n].event = valid[n].event
                  /\ Shows(summary[n].command, CommandOf(valid[n].hook))

\* a result summarises a command of 50 characters and a longer one
C14_Witness ==
    /\ FullTraversal
    /\ \E n \in 1..Len(v_result.value.hooks_summary) :
          v_result.value.hooks_summary[n].command = JString(FiftyCommand)
    /\ \E n \in 1..Len(v_result.value.hooks_summary) :
          v_result.value.hooks_summary[n].command
              = JString("echo 0123456789 0123456789 0123456789 0123456789 0...")

(***************************************************************************)
(* Properties of detect_conflicts.                                         *)
(***************************************************************************)
\* the groups of a hooks document, in document order, each with its event
GroupsOf(doc) ==
    LET ev == Get(doc, "hooks", JObject(<<>>)).items
    IN  Flatten([k \in 1..Len(ev) |->
            [i \in 1..Len(ev[k].value.elems) |->
                [event |-> ev[k].key, group |-> ev[k].value.elems[i]]]])

\* the matcher of a group, "" when it has none
MatcherOf(g) ==
    IF \E m \in 1..Len(g.items) : g.items[m].key = "matcher"
    THEN g.items[CHOOSE m \in 1..Len(g.items) : g.items[m].key = "matcher"].value.str
    ELSE ""

\* the groups of the new document that collide with the existing document
Colliding(existing, new) ==
    SelectSeq(GroupsOf(new), LAMBDA n :
        /\ MatcherOf(n.group) # ""
        /\ \E x \in Range(GroupsOf(existing)) :
              x.event = n.event /\ MatcherOf(x.group) = MatcherOf(n.group))

\* both documents were parsed and the call has returned
Compared ==
    /\ d_pc = "done"
    /\ d_existing.kind = "json"
    /\ d_new.kind = "json"

\* C15: detectConflicts emits exactly one Conflict for each group of the new
\* document whose matcher is non-empty and equal to the non-empty matcher of
\* some group under the same event in the existing document, and emits
\* nothing else; has_conflicts is true exactly when the conflict list is
\* non-empty.
C15_OneConflictPerCollidingGroup ==
    Compared =>
        LET colliding == Colliding(d_existing.doc, d_new.doc)
            conflicts == d_result.value.conflicts
        IN  /\ d_result.kind = "return"
            /\ Len(conflicts) = Len(colliding)
            /\ \A n \in 1..Len(conflicts) :
                  /\ conflicts[n].event = colliding[n].event
                  /\ conflicts[n].matcher = MatcherOf(colliding[n].group)
            /\ d_result.value.has_conflicts <=> conflicts # <<>>

\* two groups of the new document collided while another one did not
C15_Witness ==
    /\ Compared
    /\ Len(d_result.value.conflicts) = 2
    /\ Len(GroupsOf(d_new.doc)) > 2
    /\ \E n \in Range(GroupsOf(d_new.doc)) : MatcherOf(n.group) = ""
    /\ \E n \in Range(GroupsOf(d_new.doc)) :
          /\ MatcherOf(n.group) # ""
          /\ \A c \in Range(d_result.value.conflicts) : c.event # n.event

\* the command of the first hook entry of a group
FirstEntryCommand(g) ==
    LET hooks == g.items[CHOOSE m \in 1..Len(g.items) : g.items[m].key = "hooks"].value.elems
    IN  hooks[1].items[CHOOSE m \in 1..Len(hooks[1].items) :
                           hooks[1].items[m].key = "command"].value

\* the last group of the existing document under the event with the matcher
LastIndexed(existing, event, matcher) ==
    LET gs == GroupsOf(existing)
        at == {n \in 1..Len(gs) : gs[n].event = event /\ MatcherOf(gs[n].group) = matcher}
    IN  gs[CHOOSE n \in at : \A o \in at : o <= n].group

\* C16: each Conflict carries the event and matcher of the colliding groups,
\* an existing command equal to the command of the first hook entry of the
\* existing group indexed under that (event, matcher), the last such group
\* when several share the matcher, and a new command equal to the command of
\* the first hook entry of the new group.
C16_ConflictCarriesFirstCommands ==
    Compared =>
        LET colliding == Colliding(d_existing.doc, d_new.doc)
            conflicts == d_result.value.conflicts
        IN  /\ Len(conflicts) = Len(colliding)
            /\ \A n \in 1..Len(conflicts) :
                  /\ conflicts[n].event = colliding[n].event
                  /\ conflicts[n].matcher = MatcherOf(colliding[n].group)
                  /\ conflicts[n].new_command = FirstEntryCommand(colliding[n].group)
                  /\ conflicts[n].existing_command =
                         FirstEntryCommand(LastIndexed(d_existing.doc,
                             colliding[n].event, MatcherOf(colliding[n].group)))

\* a conflict was found against an event whose existing groups share the
\* matcher and differ in their first command, with a new group of several
\* entries
C16_Witness ==
    /\ Compared
    /\ \E c \in Range(d_result.value.conflicts) :
          /\ c.existing_command = JString("autopep8 .")
          /\ c.new_command = JString("autopep8 .")
          /\ \E x \in Range(GroupsOf(d_existing.doc)) :
                /\ x.event = c.event
                /\ MatcherOf(x.group) = c.matcher
                /\ FirstEntryCommand(x.group) = JString("black .")

(***************************************************************************)
(* Properties of the command-line validator.                               *)
(***************************************************************************)
\* the file is missing, unparsable, or its document has a structural issue
FailsValidation(file) ==
    \/ file.kind # "json"
    \/ RootViolation(file.doc)
    \/ ~IssueFree(file.doc)

\* C17: in single-file mode the command-line validator exits with code 1 on
\* every validation failure: whenever the file is missing, is not valid
\* JSON, or its document has any structural issue, validate_hooks_file
\* reports failure; it reports success only for documents with no such
\* issue.
C17_CliFailsOnEveryIssue ==
    c_pc = "exited" =>
        /\ c_valid = "true" => ~FailsValidation(c_file)
        /\ FailsValidation(c_file) => c_exit = 1


(***************************************************************************)
(* Properties of concurrent convert_rules calls.                           *)
(***************************************************************************)
\* everything call c holds
LocalsOf(c) ==
    <<pc[c], rule_list[c], idx[c], hooks_config[c], converted_rules[c],
      failed_rules[c], outcome[c]>>

\* call c can take its next step: it stands at one of the four points whose
\* step is guarded by the position of c alone
CanStep(c) == pc[c] \in {"ready", "info", "warning", "converted"}

\* every step belongs to one call and leaves what the other holds alone
OneCallSteps ==
    \E c \in Calls : \A d \in Calls \ {c} : LocalsOf(d)' = LocalsOf(d)

\* C18: two convert_rules calls running concurrently and interleaved in any
\* way at their notification await points each return exactly the result
\* they would return when run alone: no state written by one call is read or
\* modified by the other, and neither call waits for the other.
C18_ConcurrentCallsIndependent ==
    /\ [](\A c \in Calls :
             /\ pc[c] = "done" => outcome[c] = RunDelivered(server[c], rules[c])
             /\ pc[c] # "done" => CanStep(c))
    /\ [][OneCallSteps]_vars

\* both calls are in the middle of their batches, each with a rule converted
C18_Witness ==
    /\ pc[1] = "converted"
    /\ pc[2] = "info" /\ idx[2] = 2
    /\ converted_rules[1] # <<>>
    /\ converted_rules[2] # <<>>
    /\ server[1] # server[2]

(***************************************************************************)
(* C19                                                                     *)
(***************************************************************************)
\* the entries of the examples resource, of every category
ExampleEntries ==
    UNION {Range(get_rule_examples[k]) : k \in DOMAIN get_rule_examples}

\* the matcher convert_rules gives the group of a rule, "" when the group has
\* no matcher field
ConvertedMatcher(event, tools) ==
    LET group == HookGroup(event, tools, [type |-> "command", command |-> ""])
    IN  IF "matcher" \in DOMAIN group THEN group.matcher ELSE ""

\* C19: for every entry of get_rule_examples, converting the entry's rule
\* yields the entry's event, the entry's matcher (an empty matcher meaning no
\* matcher field) and the entry's command.
C19_ExamplesMatchConversion ==
    \A e \in ExampleEntries :
        (p_pc = "done" /\ p_rule = e.rule) =>
            /\ p_event = e.event
            /\ ConvertedMatcher(p_event, p_tools) = e.matcher
            /\ p_command = Some(e.command)

(***************************************************************************)
(* C20                                                                     *)
(***************************************************************************)
\* C20: the string form of a FileOperationError built from (operation, path,
\* reason) is exactly "Failed to <operation> file '<path>': <reason>", and the
\* string form of a ToolExecutionError built from (tool, reason, details) is
\* exactly "Tool '<tool>' failed: <reason>", while the details passed stay
\* available in the details attribute.
C20_ExactStringForm ==
    e_pc = "shown" =>
        IF e_args.class = "FileOperationError"
        THEN e_str = "Failed to " \o e_args.operation \o " file '" \o e_args.path
                         \o "': " \o e_args.reason
        ELSE /\ e_str = "Tool '" \o e_args.tool_name \o "' failed: " \o e_args.reason
             /\ PyTruthy(e_args.details) => e_exc.details = e_args.details

(***************************************************************************)
(* C21                                                                     *)
(***************************************************************************)
\* a heading line starts with '#'
IsHeading(line) == Len(line) > 0 /\ CharAt(line, 1) = "#"

IsRulesHeading(line) == IsHeading(line) /\ Contains(Lower(line), "rules")

\* the position of the first non-blank character, 0 on a blank line
FirstNonBlank(line) ==
    LET at == {i \in 1..Len(line) : CharAt(line, i) \notin Whitespace}
    IN  IF at = {} THEN 0 ELSE Min(at)

IsBullet(line) ==
    FirstNonBlank(line) > 0 /\ CharAt(line, FirstNonBlank(line)) \in {"-", "*"}

\* the text of a bullet line: what follows its bullet markers, trimmed
BulletText(line) ==
    LET rest == {i \in FirstNonBlank(line)..Len(line) : CharAt(line, i) \notin {"-", "*"}}
    IN  IF rest = {} THEN "" ELSE Strip(SubSeq(line, Min(rest), Len(line)))

\* line i lies inside a rules section: a rules heading precedes it with no
\* other heading in between
InRulesSection(lines, i) ==
    \E j \in 1..(i - 1) :
        /\ IsRulesHeading(lines[j])
        /\ \A k \in (j + 1)..i : IsHeading(lines[k]) => IsRulesHeading(lines[k])

RECURSIVE BulletTexts(_, _)
BulletTexts(lines, i) ==
    IF i > Len(lines) THEN <<>>
    ELSE (IF IsBullet(lines[i]) /\ InRulesSection(lines, i) /\ BulletText(lines[i]) # ""
          THEN <<BulletText(lines[i])>> ELSE <<>>) \o BulletTexts(lines, i + 1)

RECURSIVE ExpectedRules(_, _)
ExpectedRules(files, i) ==
    IF i > Len(files) THEN <<>>
    ELSE (IF files[i].exists
          THEN BulletTexts(ReSplit(files[i].content, {"\n"}), 1) ELSE <<>>)
         \o ExpectedRules(files, i + 1)

\* C21: for each CLAUDE.md file, list_project_rules returns, in document
\* order, exactly the non-empty texts of the bullet lines that lie inside a
\* rules section; bullet lines outside any rules section are never returned.
C21_RulesAreSectionBullets ==
    (l_pc = "done" /\ l_project.is_dir) =>
        /\ l_result.value.status = "success"
        /\ l_result.value.rules = ExpectedRules(l_project.files, 1)
        /\ l_result.value.files_found =
               [k \in 1..Len(l_result.value.files_found) |->
                   claude_files[CHOOSE n \in 1..3 :
                       /\ l_project.files[n].exists
                       /\ Cardinality({m \in 1..n : l_project.files[m].exists}) = k]]

\* rules come from two files, a section was left before a later bullet, and
\* a bullet before any rules heading was passed over
C21_Witness ==
    /\ l_pc = "done"
    /\ l_project.is_dir
    /\ l_project.files[1].exists
    /\ l_project.files[1].content = "# Project Rules\n## Other Section\n- Format Python files"
    /\ l_project.files[2].exists
    /\ l_project.files[3].exists
    /\ l_result.value.rules = <<"Check for TODOs", "Show git status when done">>

(***************************************************************************)
(* C22, C23 (checked under SpecPure)                                       *)
(***************************************************************************)
\* the double-quoted substrings of s, left to right, none overlapping
RECURSIVE QuotedSubstrings(_)
QuotedSubstrings(s) ==
    LET pairs == DelimitedPairs(s, Quote)
    IN  IF pairs = {} THEN {}
        ELSE LET ij == CHOOSE x \in pairs : \A y \in pairs : x[1] <= y[1]
             IN  {SubSeq(s, ij[1] + 1, ij[2] - 1)}
                     \cup QuotedSubstrings(SubSeq(s, ij[2] + 1, Len(s)))

\* C22: when a rule has no backtick-delimited substring and contains a
\* double-quoted substring with at least one space, '/' or '-', extractCommand
\* returns the content of such a quoted substring verbatim; a quoted
\* substring containing none of these three characters is never returned as
\* the command.
C22_QualifyingQuoteIsCommand ==
    (p_pc = "done" /\ DelimitedPairs(p_rule, Backtick) = {}) =>
        LET qualifying == {q \in QuotedSubstrings(p_rule) : HasAny(q, {" ", "/", "-"})}
        IN  /\ qualifying # {} => p_command \in {Some(q) : q \in qualifying}
            /\ \A q \in QuotedSubstrings(p_rule) \ qualifying : p_command # Some(q)

\* the token that follows the first verb of the rule, cut from text: the
\* verbs are looked for in the lower-cased rule, as whole-word starts
TokenAfterFirstVerb(rule, text) ==
    LET r == Lower(rule)
        n == Len(r)
        Ends(i) == {i + Len(VerbList[v]) - 1 : v \in {w \in 1..Len(VerbList) :
                       /\ i + Len(VerbList[w]) - 1 < n
                       /\ SubSeq(r, i, i + Len(VerbList[w]) - 1) = VerbList[w]
                       /\ (i = 1 \/ ~IsWordChar(CharAt(r, i - 1)))
                       /\ IsSpace(CharAt(r, i + Len(VerbList[w])))
                       /\ \E k \in (i + Len(VerbList[w]))..n : ~IsSpace(CharAt(r, k))}}
        starts == {i \in 1..n : Ends(i) # {}}
    IN  IF starts = {} THEN None
        ELSE LET e == CHOOSE x \in Ends(Min(starts)) : TRUE
                 b == Min({k \in (e + 1)..n : ~IsSpace(CharAt(r, k))})
                 blanks == {k \in b..n : IsSpace(CharAt(r, k))}
             IN  Some(SubSeq(text, b, IF blanks = {} THEN n ELSE Min(blanks) - 1))

\* C23: when none of the backtick, quoted and phrase-table steps matches,
\* extractCommand finds the first occurrence in the rule of one of the verbs
\* run, execute, check, validate, format, scan immediately followed by
\* whitespace and a non-whitespace token, and returns that token, as it
\* appears in the rule text, followed by " 2>/dev/null || true"; when there
\* is no such occurrence it returns none.
C23_VerbTokenAsWritten ==
    LET rows == PhraseRows(Lower(p_rule))
        token == TokenAfterFirstVerb(p_rule, p_rule)
    IN  (/\ p_pc = "done"
         /\ DelimitedPairs(p_rule, Backtick) = {}
         /\ ~(/\ DelimitedPairs(p_rule, Quote) # {}
              /\ HasAny(FirstDelimited(p_rule, Quote), {" ", "/", "-"}))
         /\ \A k \in 1..Len(rows) : ~rows[k].applies)
        => p_command = IF token.isNone THEN None
                       ELSE Some(token.value \o " 2>/dev/null || true")

(***************************************************************************)
(* C24 (checked under SpecRequire)                                         *)
(***************************************************************************)
\* the arguments of the call with the default of multiply applied
WithDefaults == [k \in {"value", "multiplier"} |->
                    IF k \in DOMAIN q_args THEN q_args[k] ELSE 2]

\* the positions of the conditions that are false or raise on those arguments
Failing == {i \in 1..Len(q_conditions) : Evaluate(q_conditions[i], WithDefaults) # "true"}

\* C24: a function decorated with @require executes its body only when every
\* precondition evaluates to true on the bound arguments (defaults applied);
\* when any precondition is false, or raises while being evaluated, a
\* ValidationError is raised before the body runs, conditions being checked
\* in declaration order with the first failing one reported.
C24_BodyOnlyWhenAllHold ==
    /\ q_pc = "body" => Failing = {}
    /\ q_pc = "done" =>
          IF Failing = {}
          THEN q_outcome = Returned(WithDefaults["value"] * WithDefaults["multiplier"])
          ELSE /\ q_outcome.kind = "raise"
               /\ q_outcome.error = "ValidationError"
               /\ q_i + 1 = Min(Failing)
               /\ q_outcome.message =
                     IF Evaluate(q_conditions[Min(Failing)], WithDefaults) = "false"
                     THEN "Precondition failed in multiply: Precondition " \o Str(Min(Failing))
                     ELSE "Error evaluating precondition in multiply: 'limit'"

\* multiply(1) with the conditions value < multiplier and multiplier > 0 has
\* run its body: both conditions were evaluated on the default multiplier 2
C24_Witness ==
    /\ q_pc = "done"
    /\ q_args = ("value" :> 1)
    /\ q_conditions = <<"value_below_multiplier", "multiplier_positive">>
    /\ q_outcome = Returned(2)

(***************************************************************************)
(* C25 (checked under SpecRetry)                                           *)
(***************************************************************************)
\* the first of the max_attempts invocations that does not raise a listed
\* exception, 0 when all of them do
Decisive ==
    LET ends == {k \in 1..t_max_attempts : t_func[k] # "raises_listed"}
    IN  IF ends = {} THEN 0 ELSE Min(ends)

\* C25: a function wrapped by retry_on_error(max_attempts=n, exceptions=E) is
\* invoked at most n times: it returns the result of the first attempt that
\* succeeds without any further invocation, an exception outside E
\* propagates at once without retry, the wait before attempt k+1 is delay*k,
\* and when all n attempts raise an exception in E the last such exception
\* is raised with no wait after the final attempt; for every n >= 0.
C25_RetryAtMostN ==
    /\ t_calls <= t_max_attempts
    /\ \A k \in 1..Len(t_sleeps) : t_sleeps[k] = t_delay * k
    /\ t_pc = "done" =>
          IF Decisive # 0
          THEN /\ t_calls = Decisive
               /\ Len(t_sleeps) = Decisive - 1
               /\ t_outcome = IF t_func[Decisive] = "returns"
                               THEN Returned(Decisive)
                               ELSE Raised("OtherError", ErrorOf(Decisive))
          ELSE /\ t_calls = t_max_attempts
               /\ Len(t_sleeps) = t_max_attempts - 1
               /\ t_outcome = Raised("RetryableError", ErrorOf(t_max_attempts))

(***************************************************************************)
(* C26 (checked under SpecRoundTrip)                                       *)
(***************************************************************************)
\* C26: for every rules text for which convert_rules returns a result,
\* validating the returned hooks_config yields status "success" with no
\* issues and no warnings, and total_hooks equal to the number of converted
\* rules; equivalently, every event key of the output is one of the four
\* known events and maps to a non-empty list of groups, each holding
\* exactly one hook entry of type "command" with a non-empty command.
C26_OutputValidates ==
    /\ v_pc = "done" =>
          /\ v_result.kind = "return"
          /\ v_result.value.status = "success"
          /\ v_result.value.issues = <<>>
          /\ v_result.value.warnings = <<>>
          /\ v_result.value.total_hooks = Len(outcome[1].value.converted_rules)
    /\ (pc[1] = "done" /\ outcome[1].kind = "return"
            /\ "hooks_config" \in DOMAIN outcome[1].value) =>
          LET hooks == outcome[1].value.hooks_config.hooks
          IN  \A event \in DOMAIN hooks :
                  /\ event \in {"PreToolUse", "PostToolUse", "Stop", "Notification"}
                  /\ hooks[event] # <<>>
                  /\ \A i \in 1..Len(hooks[event]) :
                         /\ Len(hooks[event][i].hooks) = 1
                         /\ hooks[event][i].hooks[1].type = "command"
                         /\ hooks[event][i].hooks[1].command # ""

\* a configuration with groups under two events, one of them Stop, has been
\* validated
C26_Witness ==
    /\ v_pc = "done"
    /\ v_result.kind = "return"
    /\ v_result.value.total_hooks = 2
    /\ DOMAIN outcome[1].value.hooks_config.hooks = {"PostToolUse", "Stop"}

(***************************************************************************)
(* C27 (checked under SpecObserverFails)                                   *)
(***************************************************************************)
\* the number of hook groups of a configuration
RECURSIVE GroupCount(_, _)
GroupCount(hooks, events) ==
    IF events = {} THEN 0
    ELSE LET e == CHOOSE x \in events : TRUE
         IN  Len(hooks[e]) + GroupCount(hooks, events \ {e})

\* C27: in every result returned by convert_rules (v2), each candidate rule
\* appears in exactly one of converted_rules and failed_rules:
\* len(converted_rules) + len(failed_rules) equals the number of candidate
\* rules and the total number of hook groups in hooks_config equals
\* len(converted_rules), for every execution including those in which
\* emitting a notification raises.
C27_EveryRuleInExactlyOneList ==
    \A c \in Calls :
        (server[c] = "v2" /\ pc[c] = "done" /\ outcome[c].kind = "return") =>
            LET result == outcome[c].value
            IN  /\ Len(result.converted_rules) + Len(result.failed_rules) = Len(rule_list[c])
                /\ GroupCount(result.hooks_config.hooks, DOMAIN result.hooks_config.hooks)
                       = Len(result.converted_rules)
                /\ \A i \in 1..Len(result.converted_rules) :
                       \A j \in 1..Len(result.failed_rules) :
                           result.converted_rules[i].rule # result.failed_rules[j].rule

(***************************************************************************)
(* C28 (checked under SpecValidate)                                        *)
(***************************************************************************)
\* C28: validate_hooks returns a structured result and never raises for
\* every parsed JSON document, whatever the JSON types found at any
\* position, including hook entries whose command is a non-string value
\* such as a number or a boolean.
C28_ValidateNeverRaises ==
    (v_pc = "done" /\ v_file.kind = "json") =>
        /\ v_result.kind = "return"
        /\ "status" \in DOMAIN v_result.value

(***************************************************************************)
(* C29 (checked under SpecDetectAccepted)                                  *)
(***************************************************************************)
\* validate_hooks reports status "success" for the document
Accepted(doc) ==
    /\ doc.type = "object"
    /\ Has(doc, "hooks")
    /\ Get(doc, "hooks", JNull).type = "object"
    /\ IssueFree(doc)

\* C29: every document for which validate_hooks reports status "success"
\* can be passed to detect_conflicts, as the existing document or as the new
\* document, and detect_conflicts then returns a result rather than
\* failing; this includes documents with a group that has a non-empty
\* matcher and an empty hooks array.
C29_AcceptedDocumentsAreComparable ==
    (d_pc = "done" /\ Accepted(d_existing.doc) /\ Accepted(d_new.doc)) =>
        d_result.kind = "return"

(***************************************************************************)
(* C30 (checked under SpecMergeFlag)                                       *)
(***************************************************************************)
\* the converted rules of an event, in order
ConvertedFor(converted, event) == SelectSeq(converted, LAMBDA r : r.event = event)

\* every group of the configuration is the group of a converted rule of the
\* rules text, and every converted rule has its group
OnlyGroupsOfRules(result, candidates) ==
    LET hooks == result.hooks_config.hooks
        converted == result.converted_rules
    IN  /\ DOMAIN hooks = {converted[i].event : i \in 1..Len(converted)}
        /\ \A i \in 1..Len(converted) :
               \E j \in 1..Len(candidates) : candidates[j] = converted[i].rule
        /\ \A e \in DOMAIN hooks :
               /\ Len(hooks[e]) = Len(ConvertedFor(converted, e))
               /\ \A i \in 1..Len(hooks[e]) :
                      /\ Len(hooks[e][i].hooks) = 1
                      /\ hooks[e][i].hooks[1].command = ConvertedFor(converted, e)[i].command

====
